---- MODULE Spec2Model ----
(***************************************************************************)
(* DDR5/LPDDR5 power tool: bank state machine (state_machine.py), energy   *)
(* accounting (power_calculator.py) and simulation driver (simulator.py).  *)
(*                                                                         *)
(* Times are in nanoseconds and timestamps in clock cycles, as in the      *)
(* source; both are integers here.  Energies are held as integers counting *)
(* units of 1/(24*N) pJ, N = max(1, ranks*banks), so that every quotient   *)
(* the source forms (/1000, /n_total, /R_term, duty cycle) is exact.       *)
(***************************************************************************)
EXTENDS Integers, Naturals, Sequences, FiniteSets, TLC

\* ------------------------------------------------------------------ bounds
\* Largest timestamp (clock cycles) a command of the workload carries.
MaxTime == 3
\* Largest number of commands in a workload.
MaxCmds == 3
\* Largest number of simulate calls made on one Simulator.
MaxCalls == 2

\* ------------------------------------------------- Optional[...] values
None == <<>>
Some(v) == <<v>>
IsNone(o) == o = <<>>
Get(o) == o[1]

\* ------------------------------------------------------ specifications
\* MemorySpec values handed to the constructor (spec_parser.py).  trc is
\* Optional: MemoryTimingSpec.__post_init__ fills it in.
PostInit(t) ==
    IF IsNone(t.trc) THEN [t EXCEPT !.trc = t.tras + t.trp]
    ELSE [t EXCEPT !.trc = Get(t.trc)]

PowerFixture ==
    [idd0 |-> 5, idd2n |-> 3, idd2p |-> 2, idd3n |-> 4, idd3p |-> 1,
     idd4r |-> 9, idd4w |-> 8, idd5b |-> 7, vdd |-> 1, vddq |-> 2]

TimingFixture ==
    [tck |-> 2, tras |-> 4, trp |-> 2, trcd |-> 2, trfc |-> 3,
     trfcpb |-> None, trfi |-> 4, twr |-> 4, trc |-> None]

ArchFixture ==
    [nbr_of_ranks |-> 1, nbr_of_banks |-> 2, width |-> 4, burst_length |-> 2]

Specs ==
    { [power |-> PowerFixture, timing |-> PostInit(TimingFixture),
       architecture |-> ArchFixture] }

\* Two ranks of one bank, and a row-cycle time given explicitly.
RankSpecs ==
    { [power |-> PowerFixture,
       timing |-> PostInit([TimingFixture EXCEPT !.trc = Some(7)]),
       architecture |-> [ArchFixture EXCEPT !.nbr_of_ranks = 2, !.nbr_of_banks = 1]] }

\* --------------------------------------------------------------- state
VARIABLES
    workload,           \* Optional workload.commands of the current simulate call:
                        \* the list handed over, or None when the trace is
                        \* produced command by command, already in sorted order
    calls,              \* number of simulate calls made on this Simulator
    spec,               \* Simulator.spec (shared by state machine and calculator)
    banks,              \* DRAMStateMachine.banks: (rank, bank) -> BankStateInfo
    last_refresh_time,  \* DRAMStateMachine.last_refresh_time
    current_time,       \* DRAMStateMachine.current_time
    result,             \* PowerCalculator.result (PowerResult)
    calc,               \* PowerCalculator.refresh_count / last_refresh_time
    errors,             \* Simulator.errors
    pc,                 \* position in Simulator.simulate
    i,                  \* loop index into sorted_commands
    ts,                 \* Optional timestamp of sorted_commands[i]
    cmd,                \* the command last dispatched
    last_time_ns,       \* local last_time_ns of simulate
    ret,                \* <<success, error>> of _execute_command for cmd
    other,              \* Optional second Simulator built from the same spec, with
                        \* its own fields and position, while this one runs
    hist                \* history: the Optional time (ns) of the last successful
                        \* activate and write of each bank, and of the last
                        \* successful refresh; whether the command last
                        \* dispatched repeats the one before it, which succeeded;
                        \* the number of finalize calls of the current
                        \* simulate call; the end (ns) of the last interval
                        \* charged with background energy in the current
                        \* simulate call and the sum of the lengths of all
                        \* of them

vars == <<workload, calls, spec, other, banks, last_refresh_time, current_time, result, calc, errors,
          pc, i, ts, cmd, last_time_ns, ret, hist>>

smVars == <<banks, last_refresh_time, current_time>>

\* ---------------------------------------------------------- bank state
BankState == {"IDLE", "ACTIVE", "ACTIVE_PDN", "PRE_PDN", "REFRESHING"}

BankStateInfo ==
    [state |-> "IDLE", open_row |-> None, last_activate_time |-> 0,
     last_precharge_time |-> 0, last_read_time |-> 0, last_write_time |-> 0,
     last_powerdown_time |-> 0]

\* DRAMStateMachine.last_refresh_time = -1e9
NoRefreshYet == -1000000000

BankKeys(s) ==
    (0 .. s.architecture.nbr_of_ranks - 1) \X (0 .. s.architecture.nbr_of_banks - 1)

\* ---------------------------------------------------- TimingConstraints
\* Each check returns <<ok, error>>; error is None or a tuple
\* <<message, time_since, limit>> standing for the formatted string.
\* can_activate without the check that the bank is not already Active.
can_activate_NoStateCheck(bank_info, now) ==
    IF bank_info.state = "REFRESHING" THEN <<FALSE, <<"Bank is refreshing">>>>
    ELSE IF bank_info.last_activate_time > 0
            /\ now - bank_info.last_activate_time < spec.timing.trc
         THEN <<FALSE, <<"tRC violation", now - bank_info.last_activate_time,
                         spec.timing.trc>>>>
    ELSE <<TRUE, None>>

can_activate(bank_info, now) ==
    IF bank_info.state = "ACTIVE" THEN <<FALSE, <<"Bank already active">>>>
    ELSE IF bank_info.state = "REFRESHING" THEN <<FALSE, <<"Bank is refreshing">>>>
    ELSE IF bank_info.last_activate_time > 0
            /\ now - bank_info.last_activate_time < spec.timing.trc
         THEN <<FALSE, <<"tRC violation", now - bank_info.last_activate_time,
                         spec.timing.trc>>>>
    ELSE <<TRUE, None>>

\* can_read without the tRCD check.
can_read_NoTrcd(bank_info, now) ==
    IF bank_info.state # "ACTIVE" THEN <<FALSE, <<"Bank must be active for read">>>>
    ELSE <<TRUE, None>>

can_read(bank_info, now) ==
    IF bank_info.state # "ACTIVE" THEN <<FALSE, <<"Bank must be active for read">>>>
    ELSE IF now - bank_info.last_activate_time < spec.timing.trcd
         THEN <<FALSE, <<"tRCD violation", now - bank_info.last_activate_time,
                         spec.timing.trcd>>>>
    ELSE <<TRUE, None>>

\* can_write without the tRCD check.
can_write_NoTrcd(bank_info, now) ==
    IF bank_info.state # "ACTIVE" THEN <<FALSE, <<"Bank must be active for write">>>>
    ELSE <<TRUE, None>>

can_write(bank_info, now) ==
    IF bank_info.state # "ACTIVE" THEN <<FALSE, <<"Bank must be active for write">>>>
    ELSE IF now - bank_info.last_activate_time < spec.timing.trcd
         THEN <<FALSE, <<"tRCD violation", now - bank_info.last_activate_time,
                         spec.timing.trcd>>>>
    ELSE <<TRUE, None>>

\* can_precharge that holds the row open for tRCD instead of tRAS.
can_precharge_Trcd(bank_info, now) ==
    IF bank_info.state = "IDLE" THEN <<FALSE, <<"Bank already idle">>>>
    ELSE IF bank_info.state = "REFRESHING" THEN <<FALSE, <<"Bank is refreshing">>>>
    ELSE IF bank_info.state = "ACTIVE" /\ bank_info.last_activate_time >= 0
            /\ now - bank_info.last_activate_time < spec.timing.trcd
         THEN <<FALSE, <<"tRAS violation", now - bank_info.last_activate_time,
                         spec.timing.tras>>>>
    ELSE IF bank_info.last_write_time > 0
            /\ now - bank_info.last_write_time < spec.timing.twr
         THEN <<FALSE, <<"tWR violation", now - bank_info.last_write_time,
                         spec.timing.twr>>>>
    ELSE <<TRUE, None>>

\* can_precharge without the tRAS check.
can_precharge_NoTras(bank_info, now) ==
    IF bank_info.state = "IDLE" THEN <<FALSE, <<"Bank already idle">>>>
    ELSE IF bank_info.state = "REFRESHING" THEN <<FALSE, <<"Bank is refreshing">>>>
    ELSE IF bank_info.last_write_time > 0
            /\ now - bank_info.last_write_time < spec.timing.twr
         THEN <<FALSE, <<"tWR violation", now - bank_info.last_write_time,
                         spec.timing.twr>>>>
    ELSE <<TRUE, None>>

\* can_precharge without the check that the bank is not already Idle.
can_precharge_NoIdleCheck(bank_info, now) ==
    IF bank_info.state = "REFRESHING" THEN <<FALSE, <<"Bank is refreshing">>>>
    ELSE IF bank_info.state = "ACTIVE" /\ bank_info.last_activate_time >= 0
            /\ now - bank_info.last_activate_time < spec.timing.tras
         THEN <<FALSE, <<"tRAS violation", now - bank_info.last_activate_time,
                         spec.timing.tras>>>>
    ELSE IF bank_info.last_write_time > 0
            /\ now - bank_info.last_write_time < spec.timing.twr
         THEN <<FALSE, <<"tWR violation", now - bank_info.last_write_time,
                         spec.timing.twr>>>>
    ELSE <<TRUE, None>>

can_precharge(bank_info, now) ==
    IF bank_info.state = "IDLE" THEN <<FALSE, <<"Bank already idle">>>>
    ELSE IF bank_info.state = "REFRESHING" THEN <<FALSE, <<"Bank is refreshing">>>>
    ELSE IF bank_info.state = "ACTIVE" /\ bank_info.last_activate_time >= 0
            /\ now - bank_info.last_activate_time < spec.timing.tras
         THEN <<FALSE, <<"tRAS violation", now - bank_info.last_activate_time,
                         spec.timing.tras>>>>
    ELSE IF bank_info.last_write_time > 0
            /\ now - bank_info.last_write_time < spec.timing.twr
         THEN <<FALSE, <<"tWR violation", now - bank_info.last_write_time,
                         spec.timing.twr>>>>
    ELSE <<TRUE, None>>

can_refresh(now, last_refresh) ==
    IF now - last_refresh < spec.timing.trfi
    THEN <<FALSE, <<"tREFI violation", now - last_refresh, spec.timing.trfi>>>>
    ELSE <<TRUE, None>>

\* ----------------------------------------------------- DRAMStateMachine
\* Each execute_* returns the call's outcome and the machine's state after
\* it: [ok, error, banks, last_refresh_time].
Outcome(chk, bks, lrt) ==
    [ok |-> chk[1], error |-> chk[2], banks |-> bks, last_refresh_time |-> lrt]

execute_activate(bks, lrt, now, rank, bank, row) ==
    LET chk == can_activate(bks[<<rank, bank>>], now) IN
    IF ~chk[1] THEN Outcome(chk, bks, lrt)
    ELSE Outcome(chk,
                 [bks EXCEPT ![<<rank, bank>>] =
                     [@ EXCEPT !.state = "ACTIVE", !.open_row = Some(row),
                               !.last_activate_time = now]],
                 lrt)

execute_read(bks, lrt, now, rank, bank) ==
    LET chk == can_read(bks[<<rank, bank>>], now) IN
    IF ~chk[1] THEN Outcome(chk, bks, lrt)
    ELSE Outcome(chk, [bks EXCEPT ![<<rank, bank>>].last_read_time = now], lrt)

\* execute_write that forgets to record the write time.
execute_write_NoStamp(bks, lrt, now, rank, bank) ==
    Outcome(can_write(bks[<<rank, bank>>], now), bks, lrt)

execute_write(bks, lrt, now, rank, bank) ==
    LET chk == can_write(bks[<<rank, bank>>], now) IN
    IF ~chk[1] THEN Outcome(chk, bks, lrt)
    ELSE Outcome(chk, [bks EXCEPT ![<<rank, bank>>].last_write_time = now], lrt)

\* execute_precharge that forgets to record the precharge time.
execute_precharge_NoStamp(bks, lrt, now, rank, bank) ==
    LET chk == can_precharge(bks[<<rank, bank>>], now) IN
    IF ~chk[1] THEN Outcome(chk, bks, lrt)
    ELSE Outcome(chk,
                 [bks EXCEPT ![<<rank, bank>>] =
                     [@ EXCEPT !.state = "IDLE", !.open_row = None]],
                 lrt)

execute_precharge(bks, lrt, now, rank, bank) ==
    LET chk == can_precharge(bks[<<rank, bank>>], now) IN
    IF ~chk[1] THEN Outcome(chk, bks, lrt)
    ELSE Outcome(chk,
                 [bks EXCEPT ![<<rank, bank>>] =
                     [@ EXCEPT !.state = "IDLE", !.open_row = None,
                               !.last_precharge_time = now]],
                 lrt)

\* MarkRefreshing that visits the banks of rank 0 only.
MarkRefreshing_RankZero(bks) ==
    [k \in DOMAIN bks |->
        IF bks[k].state = "ACTIVE" /\ k[1] = 0
        THEN [bks[k] EXCEPT !.state = "REFRESHING"]
        ELSE bks[k]]

\* First loop of execute_refresh: ACTIVE banks become REFRESHING.
MarkRefreshing(bks) ==
    [k \in DOMAIN bks |->
        IF bks[k].state = "ACTIVE" THEN [bks[k] EXCEPT !.state = "REFRESHING"]
        ELSE bks[k]]

\* CompleteRefresh that leaves the row open.
CompleteRefresh_KeepRow(bks) ==
    [k \in DOMAIN bks |->
        IF bks[k].state = "REFRESHING" THEN [bks[k] EXCEPT !.state = "IDLE"]
        ELSE bks[k]]

\* CompleteRefresh that leaves the banks Refreshing, to be completed later.
CompleteRefresh_Pending(bks) == bks

\* Second loop of execute_refresh: REFRESHING banks become IDLE, row closed.
CompleteRefresh(bks) ==
    [k \in DOMAIN bks |->
        IF bks[k].state = "REFRESHING"
        THEN [bks[k] EXCEPT !.state = "IDLE", !.open_row = None]
        ELSE bks[k]]

\* execute_refresh that forgets to record the refresh time.
execute_refresh_NoStamp(bks, lrt, now) ==
    LET chk == can_refresh(now, lrt) IN
    IF ~chk[1] THEN Outcome(chk, bks, lrt)
    ELSE Outcome(chk, CompleteRefresh(MarkRefreshing(bks)), lrt)

execute_refresh(bks, lrt, now) ==
    LET chk == can_refresh(now, lrt) IN
    IF ~chk[1] THEN Outcome(chk, bks, lrt)
    ELSE Outcome(chk, CompleteRefresh(MarkRefreshing(bks)), now)

\* --------------------------------------------------------- PowerResult
PowerResult ==
    [core_energy |-> 0, interface_energy |-> 0, total_energy |-> 0,
     average_power |-> <<0, 1>>, simulation_time |-> 0,
     activation_energy |-> 0, read_energy |-> 0, write_energy |-> 0,
     precharge_energy |-> 0, refresh_energy |-> 0,
     background_active_energy |-> 0, background_precharge_energy |-> 0,
     powerdown_energy |-> 0, termination_energy |-> 0, dynamic_io_energy |-> 0]

\* The ten category counters of PowerResult.
Counters ==
    {"activation_energy", "read_energy", "write_energy", "precharge_energy",
     "refresh_energy", "background_active_energy", "background_precharge_energy",
     "powerdown_energy", "termination_energy", "dynamic_io_energy"}

\* PowerCalculator.odt_resistance (Ohm), dq_capacitance (pF) and
\* switching_activity (as a percentage: 0.5).
OdtResistance == 120
DqCapacitance == 2
SwitchingPercent == 50

\* N = max(1, ranks * banks); one pJ is 24 * N energy units.
NTotal == spec.architecture.nbr_of_ranks * spec.architecture.nbr_of_banks
NUnit == IF NTotal > 0 THEN NTotal ELSE 1
UnitsPerPJ == 24 * NUnit

\* Python truthiness of an Optional number: None and 0 are false.
Truthy(o) == ~IsNone(o) /\ Get(o) # 0

\* ----------------------------------------------------- PowerCalculator
\* calculate_activation_power with the two currents exchanged.
calculate_activation_power_Reversed(duration_ns) ==
    (spec.power.idd3n - spec.power.idd0) * spec.power.vdd * duration_ns * UnitsPerPJ

\* mA * V * ns = pJ (= 1000 * the nJ value the source returns).
calculate_activation_power(duration_ns) ==
    (spec.power.idd0 - spec.power.idd3n) * spec.power.vdd * duration_ns * UnitsPerPJ

\* 0.5 * C_DQ * V^2 pJ per transition, burst * width * activity transitions.
calculate_io_power_read(burst_length, duration_ns) ==
    (UnitsPerPJ * DqCapacitance * spec.power.vddq * spec.power.vddq
       * burst_length * spec.architecture.width * SwitchingPercent) \div 200

calculate_io_power_write(burst_length, duration_ns) ==
    calculate_io_power_read(burst_length, duration_ns)

calculate_read_power(duration_ns, burst_length) ==
    (spec.power.idd4r - spec.power.idd3n) * spec.power.vdd * duration_ns * UnitsPerPJ
    + (IF Truthy(burst_length)
       THEN calculate_io_power_read(Get(burst_length), duration_ns) ELSE 0)

calculate_write_power(duration_ns, burst_length) ==
    (spec.power.idd4w - spec.power.idd3n) * spec.power.vdd * duration_ns * UnitsPerPJ
    + (IF Truthy(burst_length)
       THEN calculate_io_power_write(Get(burst_length), duration_ns) ELSE 0)

calculate_precharge_power(duration_ns) ==
    (spec.power.idd0 - spec.power.idd3n) * spec.power.vdd * duration_ns * UnitsPerPJ

\* calculate_refresh_power charging the current above active standby only.
calculate_refresh_power_MinusStandby(duration_ns) ==
    (spec.power.idd5b - spec.power.idd3n) * spec.power.vdd * duration_ns * UnitsPerPJ

calculate_refresh_power(duration_ns) ==
    spec.power.idd5b * spec.power.vdd * duration_ns * UnitsPerPJ

\* (vddq / 2)^2 / R_term W at duty cycle 0.5: vddq^2 * 125 / R pJ per ns.
calculate_termination_power(duration_ns, is_read) ==
    (spec.power.vddq * spec.power.vddq * duration_ns * 125 * UnitsPerPJ)
       \div OdtResistance

\* The four time arguments are in units of 1/N ns (a bank count times a
\* duration); returns <<active_energy, precharge_energy>>.
calculate_background_power(active_stby, active_pdn, precharge_stby, precharge_pdn) ==
    LET per == UnitsPerPJ \div NUnit IN
    << spec.power.idd3n * spec.power.vdd * active_stby * per
         + spec.power.idd3p * spec.power.vdd * active_pdn * per,
       spec.power.idd2n * spec.power.vdd * precharge_stby * per
         + spec.power.idd2p * spec.power.vdd * precharge_pdn * per >>

\* A call calculator.calculate_background_power(*args) with times in ns: the
\* four parameters are positional and have no default, so Python raises
\* TypeError unless exactly four arguments are passed.
TypeError == <<"TypeError">>

calculate_background_power_call(args) ==
    IF Len(args) = 4
    THEN calculate_background_power(args[1] * NUnit, args[2] * NUnit,
                                    args[3] * NUnit, args[4] * NUnit)
    ELSE TypeError

CountIn(bks, st) == Cardinality({k \in DOMAIN bks : bks[k].state = st})

\* accumulate_background_power that charges the whole interval as active
\* standby as soon as one bank is Active.
accumulate_background_power_AnyActive(res, bks, start_time_ns, end_time_ns) ==
    LET duration_ns == end_time_ns - start_time_ns
        bg == IF CountIn(bks, "ACTIVE") > 0
              THEN calculate_background_power(duration_ns * NUnit, 0, 0, 0)
              ELSE calculate_background_power(0, 0, duration_ns * NUnit, 0)
    IN  IF duration_ns <= 0 THEN res
        ELSE [res EXCEPT !.background_active_energy = @ + bg[1],
                         !.background_precharge_energy = @ + bg[2]]

accumulate_background_power(res, bks, start_time_ns, end_time_ns) ==
    LET duration_ns == end_time_ns - start_time_ns
        bg == IF NTotal > 0
              THEN calculate_background_power(
                       duration_ns * CountIn(bks, "ACTIVE"),
                       duration_ns * CountIn(bks, "ACTIVE_PDN"),
                       duration_ns * CountIn(bks, "IDLE"),
                       duration_ns * CountIn(bks, "PRE_PDN"))
              ELSE calculate_background_power(0, 0, duration_ns, 0)
    IN  IF duration_ns <= 0 THEN res
        ELSE [res EXCEPT !.background_active_energy = @ + bg[1],
                         !.background_precharge_energy = @ + bg[2]]

\* process_command that books the precharge energy as activation energy.
process_command_RowCounter(res, cl, cmd_type, current_time_ns, next_time_ns, burst_length) ==
    LET duration_ns == IF next_time_ns # 0 THEN next_time_ns - current_time_ns
                       ELSE spec.timing.tck
        bl == IF Truthy(burst_length) THEN burst_length
              ELSE Some(spec.architecture.burst_length)
        act == calculate_activation_power(spec.timing.tras)
        rd == calculate_read_power(duration_ns, bl)
        wr == calculate_write_power(duration_ns, bl)
        term == calculate_termination_power(duration_ns, cmd_type = "RD")
        pre == calculate_precharge_power(spec.timing.trp)
        trfc == IF cmd_type = "REFPB" /\ Truthy(spec.timing.trfcpb)
                THEN Get(spec.timing.trfcpb) ELSE spec.timing.trfc
        ref == calculate_refresh_power(trfc)
    IN  CASE cmd_type = "ACT" ->
               [energy |-> act, calc |-> cl,
                result |-> [res EXCEPT !.activation_energy = @ + act]]
          [] cmd_type = "RD" ->
               [energy |-> rd + term, calc |-> cl,
                result |-> [res EXCEPT !.read_energy = @ + rd,
                                       !.termination_energy = @ + term]]
          [] cmd_type = "WR" ->
               [energy |-> wr + term, calc |-> cl,
                result |-> [res EXCEPT !.write_energy = @ + wr,
                                       !.termination_energy = @ + term]]
          [] cmd_type \in {"PRE", "PREA"} ->
               [energy |-> pre, calc |-> cl,
                result |-> [res EXCEPT !.activation_energy = @ + pre]]
          [] cmd_type \in {"REF", "REFPB"} ->
               [energy |-> ref,
                calc |-> [refresh_count |-> cl.refresh_count + 1,
                          last_refresh_time |-> current_time_ns],
                result |-> [res EXCEPT !.refresh_energy = @ + ref]]
          [] OTHER -> [energy |-> 0, calc |-> cl, result |-> res]

\* Returns [energy, result, calc].
process_command(res, cl, cmd_type, current_time_ns, next_time_ns, burst_length) ==
    LET duration_ns == IF next_time_ns # 0 THEN next_time_ns - current_time_ns
                       ELSE spec.timing.tck
        bl == IF Truthy(burst_length) THEN burst_length
              ELSE Some(spec.architecture.burst_length)
        act == calculate_activation_power(spec.timing.tras)
        rd == calculate_read_power(duration_ns, bl)
        wr == calculate_write_power(duration_ns, bl)
        term == calculate_termination_power(duration_ns, cmd_type = "RD")
        pre == calculate_precharge_power(spec.timing.trp)
        trfc == IF cmd_type = "REFPB" /\ Truthy(spec.timing.trfcpb)
                THEN Get(spec.timing.trfcpb) ELSE spec.timing.trfc
        ref == calculate_refresh_power(trfc)
    IN  CASE cmd_type = "ACT" ->
               [energy |-> act, calc |-> cl,
                result |-> [res EXCEPT !.activation_energy = @ + act]]
          [] cmd_type = "RD" ->
               [energy |-> rd + term, calc |-> cl,
                result |-> [res EXCEPT !.read_energy = @ + rd,
                                       !.termination_energy = @ + term]]
          [] cmd_type = "WR" ->
               [energy |-> wr + term, calc |-> cl,
                result |-> [res EXCEPT !.write_energy = @ + wr,
                                       !.termination_energy = @ + term]]
          [] cmd_type \in {"PRE", "PREA"} ->
               [energy |-> pre, calc |-> cl,
                result |-> [res EXCEPT !.precharge_energy = @ + pre]]
          [] cmd_type \in {"REF", "REFPB"} ->
               [energy |-> ref,
                calc |-> [refresh_count |-> cl.refresh_count + 1,
                          last_refresh_time |-> current_time_ns],
                result |-> [res EXCEPT !.refresh_energy = @ + ref]]
          [] OTHER -> [energy |-> 0, calc |-> cl, result |-> res]

\* finalize that keeps the core energy the driver summed up while running.
finalize_RunningCore(res, simulation_time_ns) ==
    LET core == res.core_energy
        interface == res.termination_energy + res.dynamic_io_energy
    IN  [res EXCEPT !.simulation_time = simulation_time_ns,
                    !.interface_energy = interface,
                    !.total_energy = core + interface,
                    !.average_power =
                        IF simulation_time_ns > 0
                        THEN <<(core + interface) * 1000, simulation_time_ns>>
                        ELSE <<0, 1>>]

\* finalize that leaves the average power in W (nJ / ns).
finalize_Watts(res, simulation_time_ns) ==
    LET core == res.activation_energy + res.read_energy + res.write_energy
                + res.precharge_energy + res.refresh_energy
                + res.background_active_energy + res.background_precharge_energy
                + res.powerdown_energy
        interface == res.termination_energy + res.dynamic_io_energy
    IN  [res EXCEPT !.simulation_time = simulation_time_ns,
                    !.core_energy = core,
                    !.interface_energy = interface,
                    !.total_energy = core + interface,
                    !.average_power =
                        IF simulation_time_ns > 0
                        THEN <<core + interface, simulation_time_ns>>
                        ELSE <<0, 1>>]

\* average_power is kept as the fraction <<numerator, denominator>>.
finalize(res, simulation_time_ns) ==
    LET core == res.activation_energy + res.read_energy + res.write_energy
                + res.precharge_energy + res.refresh_energy
                + res.background_active_energy + res.background_precharge_energy
                + res.powerdown_energy
        interface == res.termination_energy + res.dynamic_io_energy
    IN  [res EXCEPT !.simulation_time = simulation_time_ns,
                    !.core_energy = core,
                    !.interface_energy = interface,
                    !.total_energy = core + interface,
                    !.average_power =
                        IF simulation_time_ns > 0
                        THEN <<(core + interface) * 1000, simulation_time_ns>>
                        ELSE <<0, 1>>]

\* ------------------------------------------------------------ commands
CommandType ==
    {"ACT", "RD", "WR", "PRE", "PREA", "REF", "REFPB", "PDN", "SR",
     "END_OF_SIMULATION"}

Command(t, kind, rank, bank, row, bl) ==
    [timestamp |-> t, command |-> kind, bank |-> bank, rank |-> rank,
     row |-> row, column |-> None, burst_length |-> bl]

\* Field values the workloads draw from.
RankArgs == {Some(r) : r \in 0 .. spec.architecture.nbr_of_ranks - 1}
BankArgs == {Some(b) : b \in 0 .. spec.architecture.nbr_of_banks - 1}
RowArgs == {None, Some(0), Some(1)}
BurstArgs == {None, Some(3)}

NoCommand == Command(0, "NONE", None, None, None, None)

\* Insertion of c into a list sorted by timestamp, before the commands with a
\* timestamp equal to c's.
RECURSIVE InsertByTimestamp_BeforeEqual(_, _)
InsertByTimestamp_BeforeEqual(c, s) ==
    IF s = <<>> THEN <<c>>
    ELSE IF c.timestamp <= Head(s).timestamp THEN <<c>> \o s
    ELSE <<Head(s)>> \o InsertByTimestamp_BeforeEqual(c, Tail(s))

\* Insertion of c into a list sorted by timestamp, after the commands with a
\* timestamp equal to c's.
RECURSIVE InsertByTimestamp(_, _)
InsertByTimestamp(c, s) ==
    IF s = <<>> THEN <<c>>
    ELSE IF c.timestamp < Head(s).timestamp THEN <<c>> \o s
    ELSE <<Head(s)>> \o InsertByTimestamp(c, Tail(s))

\* sorted(commands, key=lambda c: c.timestamp): Python's sort is stable.
RECURSIVE sorted(_)
sorted(commands) ==
    IF commands = <<>> THEN <<>>
    ELSE InsertByTimestamp(commands[Len(commands)],
                           sorted(SubSeq(commands, 1, Len(commands) - 1)))

sorted_commands == sorted(Get(workload))

\* The commands of kind `kind` the trace may hold at timestamp t, position i:
\* sorted_commands[i] when the workload was handed over as a list.
CommandsOf(kind, t) ==
    IF ~IsNone(workload)
    THEN {c \in {sorted_commands[i + 1]} : c.command = kind}
    ELSE
    CASE kind = "ACT" ->
           {Command(t, kind, r, b, row, None) :
                r \in RankArgs, b \in BankArgs, row \in RowArgs}
      [] kind \in {"RD", "WR"} ->
           {Command(t, kind, r, b, None, bl) :
                r \in RankArgs, b \in BankArgs, bl \in BurstArgs}
      [] kind = "PRE" ->
           {Command(t, kind, r, b, None, None) : r \in RankArgs, b \in BankArgs}
      [] kind = "PREA" ->
           {Command(t, kind, r, None, None, None) : r \in RankArgs}
      [] kind = "REFPB" ->
           {Command(t, kind, Some(0), b, None, None) : b \in BankArgs \cup {None}}
      [] OTHER -> {Command(t, kind, None, None, None, None)}

\* -------------------------------------------------------------- Simulator
\* precharge-all: execute_precharge on banks b .. nbr_of_banks - 1 of the
\* rank in turn; acc is <<success, error_msg>> so far.
\* precharge-all that passes over the banks of the rank that are Idle.
PrechargeAll_SkipIdle(bks, lrt, now, rank, b, acc) ==
    LET open == {k \in DOMAIN bks : k[1] = rank /\ bks[k].state # "IDLE"}
        bad == {k \in open : ~can_precharge(bks[k], now)[1]}
    IN  [ok |-> bad = {},
         error |-> IF bad = {} THEN None
                   ELSE can_precharge(bks[CHOOSE k \in bad : TRUE], now)[2],
         banks |-> [k \in DOMAIN bks |->
                       IF k \in open \ bad
                       THEN [bks[k] EXCEPT !.state = "IDLE", !.open_row = None,
                                           !.last_precharge_time = now]
                       ELSE bks[k]],
         last_refresh_time |-> lrt]

\* precharge-all that closes the Active banks of every rank.
PrechargeAll_EveryRank(bks, lrt, now, rank, b, acc) ==
    [ok |-> TRUE, error |-> None,
     banks |-> [k \in DOMAIN bks |->
                   IF bks[k].state = "ACTIVE"
                   THEN [bks[k] EXCEPT !.state = "IDLE", !.open_row = None,
                                       !.last_precharge_time = now]
                   ELSE bks[k]],
     last_refresh_time |-> lrt]

RECURSIVE PrechargeAll(_, _, _, _, _, _)
PrechargeAll(bks, lrt, now, rank, b, acc) ==
    IF b >= spec.architecture.nbr_of_banks
    THEN [ok |-> acc[1], error |-> acc[2], banks |-> bks, last_refresh_time |-> lrt]
    ELSE LET r == execute_precharge(bks, lrt, now, rank, b) IN
         PrechargeAll(r.banks, lrt, now, rank, b + 1,
                      IF r.ok THEN acc ELSE <<FALSE, r.error>>)

\* _execute_command that opens row 0 for an activate without a row.
ExecuteCommand_DefaultRow(bks, lrt, now, c, rank, bank) ==
    CASE c.command = "ACT" ->
           execute_activate(bks, lrt, now, rank, bank,
                            IF IsNone(c.row) THEN 0 ELSE Get(c.row))
      [] c.command = "RD" -> execute_read(bks, lrt, now, rank, bank)
      [] c.command = "WR" -> execute_write(bks, lrt, now, rank, bank)
      [] c.command = "PRE" -> execute_precharge(bks, lrt, now, rank, bank)
      [] c.command = "PREA" -> PrechargeAll(bks, lrt, now, rank, 0, <<TRUE, None>>)
      [] c.command = "REF" -> execute_refresh(bks, lrt, now)
      [] c.command = "REFPB" ->
           IF IsNone(c.bank)
           THEN Outcome(<<FALSE, <<"REFPB command requires bank">>>>, bks, lrt)
           ELSE execute_refresh(bks, lrt, now)
      [] OTHER -> Outcome(<<TRUE, None>>, bks, lrt)

\* _execute_command whose per-bank refresh closes the named bank only.
ExecuteCommand_NamedBank(bks, lrt, now, c, rank, bank) ==
    CASE c.command = "ACT" ->
           IF IsNone(c.row)
           THEN Outcome(<<FALSE, <<"ACT command requires row">>>>, bks, lrt)
           ELSE execute_activate(bks, lrt, now, rank, bank, Get(c.row))
      [] c.command = "RD" -> execute_read(bks, lrt, now, rank, bank)
      [] c.command = "WR" -> execute_write(bks, lrt, now, rank, bank)
      [] c.command = "PRE" -> execute_precharge(bks, lrt, now, rank, bank)
      [] c.command = "PREA" -> PrechargeAll(bks, lrt, now, rank, 0, <<TRUE, None>>)
      [] c.command = "REF" -> execute_refresh(bks, lrt, now)
      [] c.command = "REFPB" ->
           IF IsNone(c.bank)
           THEN Outcome(<<FALSE, <<"REFPB command requires bank">>>>, bks, lrt)
           ELSE LET chk == can_refresh(now, lrt) IN
                IF ~chk[1] THEN Outcome(chk, bks, lrt)
                ELSE Outcome(chk,
                             [k \in DOMAIN bks |->
                                 IF k = <<rank, bank>> /\ bks[k].state = "ACTIVE"
                                 THEN [bks[k] EXCEPT !.state = "IDLE",
                                                     !.open_row = None]
                                 ELSE bks[k]],
                             now)
      [] OTHER -> Outcome(<<TRUE, None>>, bks, lrt)

\* _execute_command that puts every bank into power-down on a PDN command.
ExecuteCommand_PowerDown(bks, lrt, now, c, rank, bank) ==
    CASE c.command = "ACT" ->
           IF IsNone(c.row)
           THEN Outcome(<<FALSE, <<"ACT command requires row">>>>, bks, lrt)
           ELSE execute_activate(bks, lrt, now, rank, bank, Get(c.row))
      [] c.command = "RD" -> execute_read(bks, lrt, now, rank, bank)
      [] c.command = "WR" -> execute_write(bks, lrt, now, rank, bank)
      [] c.command = "PRE" -> execute_precharge(bks, lrt, now, rank, bank)
      [] c.command = "PREA" -> PrechargeAll(bks, lrt, now, rank, 0, <<TRUE, None>>)
      [] c.command = "REF" -> execute_refresh(bks, lrt, now)
      [] c.command = "REFPB" ->
           IF IsNone(c.bank)
           THEN Outcome(<<FALSE, <<"REFPB command requires bank">>>>, bks, lrt)
           ELSE execute_refresh(bks, lrt, now)
      [] c.command = "PDN" ->
           Outcome(<<TRUE, None>>,
                   [k \in DOMAIN bks |->
                       [bks[k] EXCEPT !.state = IF @ = "ACTIVE" THEN "ACTIVE_PDN"
                                                ELSE "PRE_PDN",
                                      !.last_powerdown_time = now]],
                   lrt)
      [] OTHER -> Outcome(<<TRUE, None>>, bks, lrt)

\* Simulator._execute_command on the machine state (bks, lrt, now).
ExecuteCommand(bks, lrt, now, c, rank, bank) ==
    CASE c.command = "ACT" ->
           IF IsNone(c.row)
           THEN Outcome(<<FALSE, <<"ACT command requires row">>>>, bks, lrt)
           ELSE execute_activate(bks, lrt, now, rank, bank, Get(c.row))
      [] c.command = "RD" -> execute_read(bks, lrt, now, rank, bank)
      [] c.command = "WR" -> execute_write(bks, lrt, now, rank, bank)
      [] c.command = "PRE" -> execute_precharge(bks, lrt, now, rank, bank)
      [] c.command = "PREA" -> PrechargeAll(bks, lrt, now, rank, 0, <<TRUE, None>>)
      [] c.command = "REF" -> execute_refresh(bks, lrt, now)
      [] c.command = "REFPB" ->
           IF IsNone(c.bank)
           THEN Outcome(<<FALSE, <<"REFPB command requires bank">>>>, bks, lrt)
           ELSE execute_refresh(bks, lrt, now)
      [] OTHER -> Outcome(<<TRUE, None>>, bks, lrt)

\* _execute_command leaves with a KeyError: DRAMStateMachine.get_bank_info
\* looks up self.banks[(rank, bank)] for the commands that address a bank
\* (an activate only once it is known to carry a row, a precharge-all for
\* each bank index of the rank in turn), before anything is written.
Raises(bks, c, rank, bank) ==
    CASE c.command = "ACT" -> ~IsNone(c.row) /\ <<rank, bank>> \notin DOMAIN bks
      [] c.command \in {"RD", "WR", "PRE"} -> <<rank, bank>> \notin DOMAIN bks
      [] c.command = "PREA" ->
           \E b \in 0 .. spec.architecture.nbr_of_banks - 1 :
               <<rank, b>> \notin DOMAIN bks
      [] OTHER -> FALSE

\* ErrorString that names the command's position in place of its timestamp.
ErrorString_Position(c, error) ==
    [command |-> c.command, timestamp |-> i, error |-> error]

\* f"Command {cmd.command.value} at {cmd.timestamp} cycles: {error}"
ErrorString(c, error) ==
    [command |-> c.command, timestamp |-> c.timestamp, error |-> error]

\* Timestamps the command after one at timestamp t may carry: the sorted
\* trace is non-decreasing; None when the trace ends here.
Following(t) ==
    IF ~IsNone(workload)
    THEN {IF i + 1 < Len(sorted_commands)
          THEN Some(sorted_commands[i + 2].timestamp) ELSE None}
    ELSE {None} \cup (IF i + 1 < MaxCmds THEN {Some(u) : u \in t .. MaxTime} ELSE {})

\* Simulator(spec): the fields of a newly built Simulator.
NewSimulator(specs) ==
    /\ spec \in specs
    /\ calls = 0
    /\ banks = [k \in BankKeys(spec) |-> BankStateInfo]
    /\ last_refresh_time = NoRefreshYet
    /\ current_time = 0
    /\ result = PowerResult
    /\ calc = [refresh_count |-> 0, last_refresh_time |-> NoRefreshYet]
    /\ errors = <<>>
    /\ pc = "init"
    /\ i = 0
    /\ ts = None
    /\ cmd = NoCommand
    /\ last_time_ns = 0
    /\ ret = <<TRUE, None>>
    /\ hist = [activate |-> [k \in BankKeys(spec) |-> None],
               write |-> [k \in BankKeys(spec) |-> None],
               refresh |-> None, repeated |-> FALSE, finalized |-> 0,
               flushed |-> <<0, 0>>]

\* One Simulator is built.
Constructed(specs) == NewSimulator(specs) /\ other = None

Init == Constructed(Specs) /\ workload = None

InitRanks == Constructed(RankSpecs) /\ workload = None

\* simulate() on an empty workload: one error, the result returned as it is.
SimulateEmpty ==
    /\ pc = "init"
    /\ IF IsNone(workload) THEN TRUE ELSE Get(workload) = <<>>
    /\ errors' = <<"No commands in workload">>
    /\ pc' = "done"
    /\ calls' = calls + 1
    /\ UNCHANGED <<workload, spec, other, smVars, result, calc, i, ts, cmd, last_time_ns,
                   ret, hist>>

\* SimulateStart that lets last_time_ns start at the first command's time.
SimulateStart_FromFirstCommand ==
    /\ pc = "init"
    /\ IF IsNone(workload) THEN TRUE ELSE Get(workload) # <<>>
    /\ \E t \in (IF IsNone(workload) THEN 0 .. MaxTime
                 ELSE {sorted_commands[1].timestamp}) : ts' = Some(t)
    /\ errors' = <<>>
    /\ last_time_ns' = Get(ts') * spec.timing.tck
    /\ i' = 0
    /\ pc' = "fetch"
    /\ calls' = calls + 1
    /\ UNCHANGED <<workload, spec, other, smVars, result, calc, cmd, ret, hist>>

\* simulate() on a non-empty workload, up to the head of the loop; t is the
\* timestamp of the first command in sorted order.
SimulateStart ==
    /\ pc = "init"
    /\ IF IsNone(workload) THEN TRUE ELSE Get(workload) # <<>>
    /\ \E t \in (IF IsNone(workload) THEN 0 .. MaxTime
                 ELSE {sorted_commands[1].timestamp}) : ts' = Some(t)
    /\ errors' = <<>>
    /\ last_time_ns' = 0
    /\ i' = 0
    /\ pc' = "fetch"
    /\ calls' = calls + 1
    /\ UNCHANGED <<workload, spec, other, smVars, result, calc, cmd, ret, hist>>

\* Advance that sets the clock and leaves the gap to be flushed later.
Advance_NoFlush ==
    /\ pc = "fetch"
    /\ IF IsNone(workload) THEN TRUE
       ELSE sorted_commands[i + 1].command # "END_OF_SIMULATION"
    /\ current_time' = Get(ts) * spec.timing.tck
    /\ pc' = "dispatch"
    /\ UNCHANGED <<workload, calls, spec, other, banks, last_refresh_time, result,
                   calc, errors, i, ts, cmd, last_time_ns, ret, hist>>

\* Loop head for a command other than END_OF_SIMULATION: flush the
\* background energy of the gap, then advance the machine's clock.
Advance ==
    /\ pc = "fetch"
    /\ IF IsNone(workload) THEN TRUE
       ELSE sorted_commands[i + 1].command # "END_OF_SIMULATION"
    /\ LET current_time_ns == Get(ts) * spec.timing.tck IN
       /\ result' = IF current_time_ns > last_time_ns
                    THEN accumulate_background_power(result, banks, last_time_ns,
                                                     current_time_ns)
                    ELSE result
       /\ hist' = IF current_time_ns > last_time_ns
                  THEN [hist EXCEPT !.flushed = <<current_time_ns,
                                                  @[2] + current_time_ns - last_time_ns>>]
                  ELSE hist
       /\ current_time' = current_time_ns
    /\ pc' = "dispatch"
    /\ UNCHANGED <<workload, calls, spec, other, banks, last_refresh_time, calc, errors,
                   i, ts, cmd, last_time_ns, ret>>

\* EndOfSimulation that breaks out of the loop without the flush.
EndOfSimulation_NoFlush ==
    /\ pc = "fetch"
    /\ \E c \in CommandsOf("END_OF_SIMULATION", Get(ts)), nxt \in Following(Get(ts)) :
       \E last \in (IF ~IsNone(workload)
                   THEN {sorted_commands[Len(sorted_commands)].timestamp}
                   ELSE IF IsNone(nxt) THEN {c.timestamp} ELSE Get(nxt) .. MaxTime) :
         LET current_time_ns == c.timestamp * spec.timing.tck
             final_time_ns == IF current_time_ns > 0 THEN current_time_ns
                              ELSE last * spec.timing.tck
         IN  /\ result' = finalize(result, final_time_ns)
             /\ last_time_ns' = current_time_ns
             /\ cmd' = c
    /\ pc' = "done"
    /\ hist' = [hist EXCEPT !.finalized = @ + 1]
    /\ UNCHANGED <<workload, calls, spec, other, smVars, calc, errors, i, ts, ret>>

\* EndOfSimulation that returns the result without finalizing it.
EndOfSimulation_Unfinalized ==
    /\ pc = "fetch"
    /\ \E c \in CommandsOf("END_OF_SIMULATION", Get(ts)) :
         LET current_time_ns == c.timestamp * spec.timing.tck IN
         /\ result' = accumulate_background_power(result, banks, last_time_ns,
                                                  current_time_ns)
         /\ last_time_ns' = current_time_ns
         /\ cmd' = c
    /\ pc' = "done"
    /\ UNCHANGED <<workload, calls, spec, other, smVars, calc, errors, i, ts, ret, hist>>

\* Loop head for END_OF_SIMULATION: flush, break and finalize.  last is the
\* timestamp of sorted_commands[-1].
EndOfSimulation ==
    /\ pc = "fetch"
    /\ \E c \in CommandsOf("END_OF_SIMULATION", Get(ts)), nxt \in Following(Get(ts)) :
       \E last \in (IF ~IsNone(workload)
                   THEN {sorted_commands[Len(sorted_commands)].timestamp}
                   ELSE IF IsNone(nxt) THEN {c.timestamp} ELSE Get(nxt) .. MaxTime) :
         LET current_time_ns == c.timestamp * spec.timing.tck
             flushed == accumulate_background_power(result, banks, last_time_ns,
                                                    current_time_ns)
             final_time_ns == IF current_time_ns > 0 THEN current_time_ns
                              ELSE last * spec.timing.tck
         IN  /\ result' = finalize(flushed, final_time_ns)
             /\ hist' = [hist EXCEPT
                            !.finalized = @ + 1,
                            !.flushed = IF current_time_ns > last_time_ns
                                        THEN <<current_time_ns,
                                               @[2] + current_time_ns - last_time_ns>>
                                        ELSE @]
             /\ last_time_ns' = current_time_ns
             /\ cmd' = c
    /\ pc' = "done"
    /\ UNCHANGED <<workload, calls, spec, other, smVars, calc, errors, i, ts, ret>>

\* Rest of the loop body for command c, followed in sorted order by a
\* command at timestamp nxt (None: c is the last one, the loop ends and the
\* result is finalized).  When the bank lookup raises, simulate is left by
\* the exception: nothing is returned and nothing more is written.
Dispatch(c, nxt) ==
    LET rank == IF ~IsNone(c.rank) THEN Get(c.rank) ELSE 0
        bank == IF ~IsNone(c.bank) THEN Get(c.bank) ELSE 0
        current_time_ns == c.timestamp * spec.timing.tck
        next_time_ns == IF ~IsNone(nxt) THEN Get(nxt) * spec.timing.tck
                        ELSE current_time_ns + spec.timing.tck
        r == ExecuteCommand(banks, last_refresh_time, current_time, c, rank, bank)
        p == process_command(result, calc, c.command, current_time_ns,
                             next_time_ns, c.burst_length)
        charged == IF r.ok
                   THEN [p.result EXCEPT !.core_energy = @ + p.energy]
                   ELSE result
        final_time_ns == IF current_time_ns > 0 THEN current_time_ns
                         ELSE c.timestamp * spec.timing.tck
    IN  IF Raises(banks, c, rank, bank)
        THEN /\ pc' = "fault"
             /\ cmd' = c
             /\ UNCHANGED <<workload, calls, spec, other, smVars, result, calc, errors,
                            i, ts, last_time_ns, ret, hist>>
        ELSE
        /\ banks' = r.banks
        /\ last_refresh_time' = r.last_refresh_time
        /\ ret' = <<r.ok, r.error>>
        /\ errors' = IF r.ok THEN errors
                     ELSE Append(errors, ErrorString(c, r.error))
        /\ calc' = IF r.ok THEN p.calc ELSE calc
        /\ last_time_ns' = current_time_ns
        /\ cmd' = c
        /\ hist' = LET h == [hist EXCEPT !.repeated = (c = cmd /\ ret[1]),
                                         !.finalized = IF IsNone(nxt) THEN @ + 1
                                                       ELSE @] IN
                   IF ~r.ok THEN h
                   ELSE CASE c.command = "ACT" ->
                               [h EXCEPT !.activate[<<rank, bank>>] = Some(current_time)]
                          [] c.command = "WR" ->
                               [h EXCEPT !.write[<<rank, bank>>] = Some(current_time)]
                          [] c.command \in {"REF", "REFPB"} ->
                               [h EXCEPT !.refresh = Some(current_time)]
                          [] OTHER -> h
        /\ IF IsNone(nxt)
           THEN /\ result' = finalize(charged, final_time_ns)
                /\ pc' = "done"
                /\ UNCHANGED <<i, ts>>
           ELSE /\ result' = charged
                /\ pc' = "fetch"
                /\ i' = i + 1
                /\ ts' = nxt
        /\ UNCHANGED <<workload, calls, spec, other, current_time>>

DispatchACT ==
    /\ pc = "dispatch"
    /\ \E c \in CommandsOf("ACT", Get(ts)), nxt \in Following(Get(ts)) :
         Dispatch(c, nxt)

DispatchRD ==
    /\ pc = "dispatch"
    /\ \E c \in CommandsOf("RD", Get(ts)), nxt \in Following(Get(ts)) :
         Dispatch(c, nxt)

DispatchWR ==
    /\ pc = "dispatch"
    /\ \E c \in CommandsOf("WR", Get(ts)), nxt \in Following(Get(ts)) :
         Dispatch(c, nxt)

DispatchPRE ==
    /\ pc = "dispatch"
    /\ \E c \in CommandsOf("PRE", Get(ts)), nxt \in Following(Get(ts)) :
         Dispatch(c, nxt)

DispatchPREA ==
    /\ pc = "dispatch"
    /\ \E c \in CommandsOf("PREA", Get(ts)), nxt \in Following(Get(ts)) :
         Dispatch(c, nxt)

DispatchREF ==
    /\ pc = "dispatch"
    /\ \E c \in CommandsOf("REF", Get(ts)), nxt \in Following(Get(ts)) :
         Dispatch(c, nxt)

DispatchREFPB ==
    /\ pc = "dispatch"
    /\ \E c \in CommandsOf("REFPB", Get(ts)), nxt \in Following(Get(ts)) :
         Dispatch(c, nxt)

DispatchPDN ==
    /\ pc = "dispatch"
    /\ \E c \in CommandsOf("PDN", Get(ts)), nxt \in Following(Get(ts)) :
         Dispatch(c, nxt)

DispatchSR ==
    /\ pc = "dispatch"
    /\ \E c \in CommandsOf("SR", Get(ts)), nxt \in Following(Get(ts)) :
         Dispatch(c, nxt)


Next ==
    \/ SimulateEmpty
    \/ SimulateStart
    \/ Advance
    \/ EndOfSimulation
    \/ DispatchACT
    \/ DispatchRD
    \/ DispatchWR
    \/ DispatchPRE
    \/ DispatchPREA
    \/ DispatchREF
    \/ DispatchREFPB
    \/ DispatchPDN
    \/ DispatchSR

Spec == Init /\ [][Next]_vars

\* ------------------------------------------- workloads handed over as lists
\* Timestamps and commands the listed workloads draw from, in any order.
WorkloadTimes == {0, MaxTime}

WorkloadCommands ==
    {Command(t, "ACT", Some(0), Some(0), Some(0), None) : t \in WorkloadTimes}
    \cup {Command(t, "RD", Some(0), Some(0), None, None) : t \in WorkloadTimes}
    \cup {Command(t, "END_OF_SIMULATION", None, None, None, None) : t \in WorkloadTimes}
    \cup {Command(MaxTime, "WR", Some(0), Some(0), None, Some(3)),
          Command(MaxTime, "PRE", Some(0), Some(0), None, None),
          Command(MaxTime, "PREA", Some(0), None, None, None),
          Command(0, "REF", None, None, None, None),
          Command(MaxTime, "REFPB", Some(0), Some(0), None, None),
          Command(0, "PDN", None, None, None, None),
          Command(MaxTime, "SR", None, None, None, None)}

Workloads == UNION {[1 .. n -> WorkloadCommands] : n \in 0 .. MaxCmds}

InitWorkload == Constructed(Specs) /\ workload \in {Some(w) : w \in Workloads}

\* The caller calls simulate again on the same Simulator, with an empty
\* workload or with the same workload; nothing of the Simulator is rebuilt.
SimulateAgain ==
    /\ pc = "done"
    /\ calls < MaxCalls
    /\ \E w \in {<<>>, Get(workload)} : workload' = Some(w)
    /\ pc' = "init"
    /\ i' = 0
    /\ ts' = None
    /\ cmd' = NoCommand
    /\ last_time_ns' = 0
    /\ ret' = <<TRUE, None>>
    /\ hist' = [hist EXCEPT !.repeated = FALSE, !.finalized = 0,
                            !.flushed = <<0, 0>>]
    /\ UNCHANGED <<calls, spec, other, smVars, result, calc, errors>>

NextWorkload == Next \/ SimulateAgain

SpecWorkload == InitWorkload /\ [][NextWorkload]_vars

\* The same driver on the two-rank specification.
SpecRanks == InitRanks /\ [][Next]_vars

\* ------------------------------------------------ two Simulators, one spec
\* A second Simulator built from the same spec, about to be handed the
\* workload w: it has a state machine, a calculator, a result and an error
\* list of its own (Simulator.__init__, DRAMStateMachine.__init__); only the
\* spec object is the one the first Simulator holds.
Built(w) ==
    [workload |-> Some(w), calls |-> 0,
     banks |-> [k \in BankKeys(spec) |-> BankStateInfo],
     last_refresh_time |-> NoRefreshYet, current_time |-> 0,
     result |-> PowerResult,
     calc |-> [refresh_count |-> 0, last_refresh_time |-> NoRefreshYet],
     errors |-> <<>>, pc |-> "init", i |-> 0, ts |-> None, cmd |-> NoCommand,
     last_time_ns |-> 0, ret |-> <<TRUE, None>>,
     hist |-> [activate |-> [k \in BankKeys(spec) |-> None],
               write |-> [k \in BankKeys(spec) |-> None],
               refresh |-> None, repeated |-> FALSE, finalized |-> 0,
               flushed |-> <<0, 0>>]]

\* The running Simulator's fields and position, as a record.
Running ==
    [workload |-> workload, calls |-> calls, banks |-> banks,
     last_refresh_time |-> last_refresh_time, current_time |-> current_time,
     result |-> result, calc |-> calc, errors |-> errors, pc |-> pc, i |-> i,
     ts |-> ts, cmd |-> cmd, last_time_ns |-> last_time_ns, ret |-> ret,
     hist |-> hist]

\* Resume(o): the Simulator o goes on from where it was.
Resume(o) ==
    /\ workload' = o.workload
    /\ calls' = o.calls
    /\ banks' = o.banks
    /\ last_refresh_time' = o.last_refresh_time
    /\ current_time' = o.current_time
    /\ result' = o.result
    /\ calc' = o.calc
    /\ errors' = o.errors
    /\ pc' = o.pc
    /\ i' = o.i
    /\ ts' = o.ts
    /\ cmd' = o.cmd
    /\ last_time_ns' = o.last_time_ns
    /\ ret' = o.ret
    /\ hist' = o.hist

\* Switch in which the two Simulators hold one PowerCalculator.result.
Switch_SharedResult ==
    /\ IF IsNone(other) THEN FALSE ELSE Get(other).pc \notin {"done", "fault"}
    /\ Resume([Get(other) EXCEPT !.result = result])
    /\ other' = Some(Running)
    /\ UNCHANGED spec

\* The scheduler leaves the running Simulator where it is and lets the other
\* one, which has steps left, go on.
Switch ==
    /\ IF IsNone(other) THEN FALSE ELSE Get(other).pc \notin {"done", "fault"}
    /\ Resume(Get(other))
    /\ other' = Some(Running)
    /\ UNCHANGED spec

\* Simulator.simulate run from start to end on its own, as a function of the
\* Simulator m (a record as Built makes it) it is called on: the loop over
\* the sorted commands s from position k on, then finalize.
RECURSIVE simulate_loop(_, _, _)
simulate_loop(m, s, k) ==
    LET tck_ns == spec.timing.tck
        final_time_ns == IF m.last_time_ns > 0 THEN m.last_time_ns
                         ELSE s[Len(s)].timestamp * tck_ns
        finish(n) == [n EXCEPT !.result = finalize(n.result, final_time_ns),
                               !.pc = "done"]
    IN  IF k > Len(s) THEN finish(m)
        ELSE
        LET c == s[k]
            current_time_ns == c.timestamp * tck_ns
            next_time_ns == IF k < Len(s) THEN s[k + 1].timestamp * tck_ns
                            ELSE current_time_ns + tck_ns
            rank == IF ~IsNone(c.rank) THEN Get(c.rank) ELSE 0
            bank == IF ~IsNone(c.bank) THEN Get(c.bank) ELSE 0
            flushed == accumulate_background_power(m.result, m.banks,
                                                   m.last_time_ns, current_time_ns)
            r == ExecuteCommand(m.banks, m.last_refresh_time, current_time_ns,
                                c, rank, bank)
            p == process_command(flushed, m.calc, c.command, current_time_ns,
                                 next_time_ns, c.burst_length)
        IN  IF c.command = "END_OF_SIMULATION"
            THEN [m EXCEPT !.result = finalize(flushed, IF current_time_ns > 0
                                                        THEN current_time_ns
                                                        ELSE s[Len(s)].timestamp * tck_ns),
                           !.last_time_ns = current_time_ns, !.pc = "done"]
            ELSE IF Raises(m.banks, c, rank, bank)
            THEN [m EXCEPT !.result = flushed, !.current_time = current_time_ns,
                           !.pc = "fault"]
            ELSE simulate_loop(
                     [m EXCEPT !.banks = r.banks,
                               !.last_refresh_time = r.last_refresh_time,
                               !.current_time = current_time_ns,
                               !.result = IF r.ok
                                          THEN [p.result EXCEPT !.core_energy = @ + p.energy]
                                          ELSE flushed,
                               !.calc = IF r.ok THEN p.calc ELSE m.calc,
                               !.errors = IF r.ok THEN m.errors
                                          ELSE Append(m.errors, ErrorString(c, r.error)),
                               !.last_time_ns = current_time_ns],
                     s, k + 1)

simulate(m) ==
    IF Get(m.workload) = <<>>
    THEN [m EXCEPT !.errors = <<"No commands in workload">>, !.pc = "done"]
    ELSE simulate_loop([m EXCEPT !.errors = <<>>], sorted(Get(m.workload)), 1)

\* Traces of the first Simulator: one command of every kind.
IsolationCommands ==
    {Command(0, "ACT", Some(0), Some(0), Some(0), None),
     Command(MaxTime, "RD", Some(0), Some(0), None, None),
     Command(MaxTime, "WR", Some(0), Some(0), None, Some(3)),
     Command(MaxTime, "PRE", Some(0), Some(0), None, None),
     Command(MaxTime, "PREA", Some(0), None, None, None),
     Command(0, "REF", None, None, None, None),
     Command(MaxTime, "REFPB", Some(0), Some(0), None, None),
     Command(0, "PDN", None, None, None, None),
     Command(MaxTime, "SR", None, None, None, None),
     Command(MaxTime, "END_OF_SIMULATION", None, None, None, None)}

IsolationWorkloads == UNION {[1 .. n -> IsolationCommands] : n \in 0 .. MaxCmds}

\* Trace of the second Simulator, on the other bank and not in time order.
OtherWorkloads ==
    { << Command(MaxTime, "RD", Some(0), Some(1), None, Some(3)),
         Command(0, "ACT", Some(0), Some(1), Some(1), None) >> }

InitIsolation ==
    /\ NewSimulator(Specs)
    /\ workload \in {Some(w) : w \in IsolationWorkloads}
    /\ other \in {Some(Built(w)) : w \in OtherWorkloads}

NextIsolation == Next \/ Switch

SpecIsolation == InitIsolation /\ [][NextIsolation]_vars

\* ------------------------------------------ workloads of any rank and bank
\* Specifications of one rank of two banks, of one rank without banks, and
\* of two ranks of one bank with a per-bank refresh-cycle time.
ContractSpecs ==
    Specs
    \cup { [power |-> PowerFixture, timing |-> PostInit(TimingFixture),
             architecture |-> [ArchFixture EXCEPT !.nbr_of_banks = 0]],
           [power |-> PowerFixture,
            timing |-> PostInit([TimingFixture EXCEPT !.trfcpb = Some(1)]),
            architecture |-> [ArchFixture EXCEPT !.nbr_of_ranks = 2,
                                                 !.nbr_of_banks = 1]] }

\* Commands the parser hands over as they are: the rank and bank of a
\* command are whatever the trace file holds (workload_parser.py).
ContractCommands ==
    {Command(0, "ACT", Some(0), Some(0), Some(0), None),
     Command(0, "ACT", Some(0), Some(1), Some(0), None),
     Command(0, "ACT", Some(1), Some(0), Some(0), None),
     Command(MaxTime, "ACT", Some(0), Some(2), None, None),
     Command(MaxTime, "RD", Some(0), Some(0), None, None),
     Command(MaxTime, "WR", Some(0), Some(0), None, Some(3)),
     Command(MaxTime, "PRE", Some(0), Some(0), None, None),
     Command(MaxTime, "PREA", Some(0), None, None, None),
     Command(MaxTime, "PREA", Some(1), None, None, None),
     Command(0, "REF", None, None, None, None),
     Command(0, "REFPB", Some(0), Some(0), None, None),
     Command(MaxTime, "REFPB", Some(0), Some(0), None, None),
     Command(MaxTime, "REFPB", Some(0), Some(2), None, None),
     Command(0, "PDN", Some(3), Some(2), None, None),
     Command(MaxTime, "SR", None, None, None, None),
     Command(MaxTime, "END_OF_SIMULATION", None, None, None, None)}

ContractWorkloads == UNION {[1 .. n -> ContractCommands] : n \in 0 .. MaxCmds}

InitContract ==
    Constructed(ContractSpecs) /\ workload \in {Some(w) : w \in ContractWorkloads}

SpecContract == InitContract /\ [][Next]_vars

\* ------------------------------------------- workloads around timestamp 0
\* Nothing validates a trace's timestamps or a specification's timings
\* (workload_parser.py, spec_parser.py): the fixture, and the fixture with a
\* row-to-column delay of zero; timestamps at and before cycle 0.
OriginSpecs ==
    Specs
    \cup { [power |-> PowerFixture,
             timing |-> PostInit([TimingFixture EXCEPT !.trcd = 0]),
             architecture |-> ArchFixture] }

OriginTimes == {0 - MaxTime, 0}

OriginCommands ==
    {Command(t, "ACT", Some(0), Some(0), Some(0), None) : t \in OriginTimes}
    \cup {Command(t, "RD", Some(0), Some(0), None, None) : t \in OriginTimes}
    \cup {Command(t, "WR", Some(0), Some(0), None, Some(3)) : t \in OriginTimes}
    \cup {Command(0, "PDN", None, None, None, None)}

OriginWorkloads == UNION {[1 .. n -> OriginCommands] : n \in 1 .. MaxCmds}

InitOrigin ==
    Constructed(OriginSpecs) /\ workload \in {Some(w) : w \in OriginWorkloads}

NextOrigin ==
    \/ SimulateStart
    \/ Advance
    \/ DispatchACT
    \/ DispatchRD
    \/ DispatchWR
    \/ DispatchPDN

SpecOrigin == InitOrigin /\ [][NextOrigin]_vars

\* ------------------------------------------------------------ scenario A
\* The specification of the driver's test (test_simulator.py, setUp), in
\* units of ten clock periods (3.12 ns) and of V_DD (1.1 V = V_DDQ).  Every
\* time the state machine sees is a whole number of these units, so that a
\* comparison with a timing limit is the comparison with the limit rounded
\* up to the next unit: tRCD and tRP 13.75 ns = 4.41 -> 5, tRAS 32 ns = 10.26
\* -> 11, tRC 45.75 ns = 14.66 -> 15, tRFC 280 ns = 89.7 -> 90, tWR 15 ns =
\* 4.81 -> 5, tREFI 7800 ns = 2500.  Each energy counter is its value on
\* the code times a positive factor.
ScenarioSpecs ==
    { [power |-> [idd0 |-> 51, idd2n |-> 35, idd2p |-> 25, idd3n |-> 46,
                  idd3p |-> 15, idd4r |-> 146, idd4w |-> 120, idd5b |-> 80,
                  vdd |-> 1, vddq |-> 1],
       timing |-> PostInit([tck |-> 1, tras |-> 11, trp |-> 5, trcd |-> 5,
                            trfc |-> 90, trfcpb |-> None, trfi |-> 2500,
                            twr |-> 5, trc |-> Some(15)]),
       architecture |-> [nbr_of_ranks |-> 1, nbr_of_banks |-> 4, width |-> 64,
                         burst_length |-> 16]] }

\* test_simple_workload: activate @0, read @50, precharge @150 and
\* end-of-simulation @1000 cycles, timestamps in units of ten cycles.
ScenarioA ==
    << Command(0, "ACT", Some(0), Some(0), Some(512), None),
       Command(5, "RD", Some(0), Some(0), None, Some(16)),
       Command(15, "PRE", Some(0), Some(0), None, None),
       Command(100, "END_OF_SIMULATION", None, None, None, None) >>

\* The trace with its four commands in any order.
ScenarioWorkloads ==
    {w \in [1 .. Len(ScenarioA) -> {ScenarioA[n] : n \in 1 .. Len(ScenarioA)}] :
        \A a, b \in 1 .. Len(ScenarioA) : a # b => w[a] # w[b]}

InitScenario ==
    Constructed(ScenarioSpecs) /\ workload \in {Some(w) : w \in ScenarioWorkloads}

NextScenario ==
    \/ SimulateStart
    \/ Advance
    \/ EndOfSimulation
    \/ DispatchACT
    \/ DispatchRD
    \/ DispatchPRE

SpecScenario == InitScenario /\ [][NextScenario]_vars

\* ------------------------------------------------------------- claims
\* The (rank, bank) a command addresses, with the driver's defaults.
KeyOf(c) ==
    << IF ~IsNone(c.rank) THEN Get(c.rank) ELSE 0,
       IF ~IsNone(c.bank) THEN Get(c.bank) ELSE 0 >>

\* A step that dispatches a command of one of the kinds; in it cmd' is the
\* command, ret' its outcome and current_time the time it is issued at.
Dispatched(kinds) == pc = "dispatch" /\ pc' # "dispatch" /\ cmd'.command \in kinds

\* The state right after a command of one of the kinds was dispatched.
JustDispatched(kinds) == pc \in {"fetch", "done"} /\ cmd.command \in kinds

CountersUnchanged == \A f \in Counters : result'[f] = result[f]

MachineUnchanged == banks' = banks /\ last_refresh_time' = last_refresh_time

\* C1: a command reported as failed changes no bank, not the global
\* last-refresh time and none of the ten energy counters.
C1_FailedCommandChangesNothing ==
    [][(Dispatched(CommandType) /\ Len(errors') > Len(errors))
          => (MachineUnchanged /\ CountersUnchanged)]_vars

\* C2: in every reachable state, a bank has an open row exactly when it is
\* Active.
C2_OpenRowIffActive ==
    \A k \in DOMAIN banks : (~IsNone(banks[k].open_row)) <=> (banks[k].state = "ACTIVE")

C2_Witness ==
    /\ JustDispatched({"PRE", "PREA", "REF", "REFPB"})
    /\ ret[1]
    /\ \E k, j \in DOMAIN banks :
         /\ banks[k].state = "IDLE" /\ ~IsNone(hist.activate[k])
         /\ banks[j].state = "ACTIVE" /\ banks[j].open_row = Some(1)

\* C3: a successful activate of a bank is at least tRC after the previous
\* successful activate of that bank, whatever the time of the previous one
\* (time 0 included).
C3_ActivateSpacing ==
    [][(Dispatched({"ACT"}) /\ ret'[1] /\ ~IsNone(hist.activate[KeyOf(cmd')]))
          => current_time - Get(hist.activate[KeyOf(cmd')]) >= spec.timing.trc]_vars

\* C4: a read succeeds exactly when the bank is Active and tRCD has elapsed
\* since its last activate; the failure reason mentions 'active' for a bank
\* that is not Active and tRCD for a read issued too early; a successful
\* read changes the bank's last-read time and nothing else.
MentionsActive(error) ==
    ~IsNone(error)
    /\ error[1] \in {"Bank already active", "Bank must be active for read",
                     "Bank must be active for write"}

C4_ReadLegality ==
    [][Dispatched({"RD"}) =>
          LET k == KeyOf(cmd')
              active == banks[k].state = "ACTIVE"
              elapsed == current_time - banks[k].last_activate_time >= spec.timing.trcd
          IN  /\ ret'[1] <=> (active /\ elapsed)
              /\ ~active => MentionsActive(ret'[2])
              /\ (active /\ ~elapsed) => ret'[2][1] = "tRCD violation"
              /\ ret'[1] =>
                   /\ banks' = [banks EXCEPT ![k].last_read_time = current_time]
                   /\ last_refresh_time' = last_refresh_time]_vars

C4_Witness ==
    /\ JustDispatched({"RD"})
    /\ ret[1]
    /\ banks[KeyOf(cmd)].last_read_time = current_time
    /\ \E e \in 1 .. Len(errors) :
         errors[e].command = "RD" /\ errors[e].error[1] = "tRCD violation"

\* Some write to bank k succeeded less than tWR before now.
WriteRecovering(k) ==
    ~IsNone(hist.write[k]) /\ current_time - Get(hist.write[k]) < spec.timing.twr

\* C5: precharge of an Active bank before tRAS has elapsed fails with a
\* tRAS reason, leaves the bank Active, logs an error naming tRAS and adds no
\* precharge energy; once tRAS has elapsed (and no write is recovering) it
\* succeeds and leaves the bank Idle.
C5_PrechargeTras ==
    [][(Dispatched({"PRE"}) /\ banks[KeyOf(cmd')].state = "ACTIVE") =>
          LET k == KeyOf(cmd')
              early == current_time - banks[k].last_activate_time < spec.timing.tras
          IN  /\ early =>
                   /\ ~ret'[1] /\ ret'[2][1] = "tRAS violation"
                   /\ banks'[k].state = "ACTIVE"
                   /\ errors' = Append(errors, ErrorString(cmd', ret'[2]))
                   /\ result'.precharge_energy = result.precharge_energy
              /\ (~early /\ ~WriteRecovering(k)) =>
                   ret'[1] /\ banks'[k].state = "IDLE"]_vars

C5_Witness ==
    /\ JustDispatched({"PRE"})
    /\ ret[1]
    /\ banks[KeyOf(cmd)].state = "IDLE"
    /\ result.precharge_energy > 0
    /\ \E e \in 1 .. Len(errors) :
         /\ errors[e].command = "PRE" /\ errors[e].error[1] = "tRAS violation"
         /\ KeyOf(cmd) = <<0, 0>>

\* A step in which precharge (PRE or PREA) closes bank k.
Precharges(k) ==
    /\ Dispatched({"PRE", "PREA"})
    /\ banks[k].state = "ACTIVE" /\ banks'[k].state = "IDLE"

RefreshCall ==
    Dispatched({"REF", "REFPB"}) /\ ~(cmd'.command = "REFPB" /\ IsNone(cmd'.bank))

\* C7: a refresh less than tREFI after the last successful refresh fails
\* with a tREFI reason, so successful refreshes are at least tREFI apart;
\* the first refresh of a run succeeds, at time 0 too.
C7_RefreshSpacing ==
    [][RefreshCall =>
          /\ IsNone(hist.refresh) => ret'[1]
          /\ ~IsNone(hist.refresh) =>
               IF current_time - Get(hist.refresh) < spec.timing.trfi
               THEN ~ret'[1] /\ ret'[2][1] = "tREFI violation"
               ELSE ret'[1]]_vars

C7_Witness ==
    /\ JustDispatched({"REF"})
    /\ ret[1]
    /\ calc.refresh_count = 2
    /\ last_refresh_time = current_time
    /\ \E e \in 1 .. Len(errors) :
         errors[e].command = "REF" /\ errors[e].error[1] = "tREFI violation"

\* C8: a successful refresh leaves every Active bank of every rank Idle
\* with no open row, leaves Idle banks as they were and sets the global
\* last-refresh time to the current time; no bank is ever left Refreshing.
C8_RefreshClosesAllBanks ==
    [][/\ \A k \in DOMAIN banks : banks'[k].state # "REFRESHING"
       /\ (RefreshCall /\ ret'[1]) =>
            /\ \A k \in DOMAIN banks :
                 /\ banks[k].state = "ACTIVE" =>
                      banks'[k].state = "IDLE" /\ IsNone(banks'[k].open_row)
                 /\ banks[k].state = "IDLE" => banks'[k] = banks[k]
            /\ last_refresh_time' = current_time]_vars

\* Both ranks' banks were opened and never precharged, and a refresh closed them.
C8_Witness ==
    /\ JustDispatched({"REF", "REFPB"})
    /\ ret[1]
    /\ \A k \in DOMAIN banks :
         /\ ~IsNone(hist.activate[k])
         /\ banks[k].last_precharge_time = 0
         /\ banks[k].state = "IDLE"
    /\ \E k \in DOMAIN banks : k[1] = 1

\* C9: activate of an Active bank fails with a state conflict and changes
\* nothing; a successful activate leaves the bank Active with the given row
\* open and its last-activate time equal to the current time.
C9_Activate ==
    [][(Dispatched({"ACT"}) /\ ~IsNone(cmd'.row)) =>
          LET k == KeyOf(cmd') IN
          /\ banks[k].state = "ACTIVE" =>
               /\ ~ret'[1] /\ ret'[2] = <<"Bank already active">>
               /\ MachineUnchanged /\ CountersUnchanged
          /\ ret'[1] =>
               /\ banks'[k].state = "ACTIVE"
               /\ banks'[k].open_row = cmd'.row
               /\ banks'[k].last_activate_time = current_time]_vars

C9_Witness ==
    /\ JustDispatched({"ACT"})
    /\ ret[1]
    /\ current_time > 0
    /\ banks[KeyOf(cmd)].open_row = Some(1)
    /\ \E e \in 1 .. Len(errors) :
         errors[e].command = "ACT" /\ errors[e].error = <<"Bank already active">>

\* C10: precharge of an Idle bank fails with 'already idle' and changes
\* nothing; a successful precharge leaves the bank Idle with no open row and
\* its last-precharge time equal to the current time.
C10_Precharge ==
    [][Dispatched({"PRE"}) =>
          LET k == KeyOf(cmd') IN
          /\ banks[k].state = "IDLE" =>
               /\ ~ret'[1] /\ ret'[2] = <<"Bank already idle">>
               /\ MachineUnchanged /\ CountersUnchanged
          /\ ret'[1] =>
               /\ banks'[k].state = "IDLE"
               /\ IsNone(banks'[k].open_row)
               /\ banks'[k].last_precharge_time = current_time]_vars

C10_Witness ==
    /\ JustDispatched({"PRE"})
    /\ ~ret[1] /\ ret[2] = <<"Bank already idle">>
    /\ banks[KeyOf(cmd)].last_precharge_time > 0
    /\ i = 2

\* Times (ns) a command can be issued at.
IssueTimes == {t * spec.timing.tck : t \in 0 .. MaxTime}

\* In machine state bks, write and read of bank k are legal at the same times.
SameLegality(bks) ==
    \A k \in DOMAIN bks, now \in IssueTimes :
        can_write(bks[k], now)[1] = can_read(bks[k], now)[1]

\* C11: in every reachable state and at every time, write of a bank succeeds
\* exactly when read of it would (bank Active and tRCD elapsed since its last
\* activate); a successful write changes the bank's last-write time and
\* nothing else.
C11_WriteLikeRead ==
    [][/\ SameLegality(banks) /\ SameLegality(banks')
       /\ Dispatched({"WR"}) =>
            LET k == KeyOf(cmd')
                active == banks[k].state = "ACTIVE"
                elapsed == current_time - banks[k].last_activate_time >= spec.timing.trcd
            IN  /\ ret'[1] <=> (active /\ elapsed)
                /\ ret'[1] <=> can_read(banks[k], current_time)[1]
                /\ ret'[1] =>
                     /\ banks' = [banks EXCEPT ![k].last_write_time = current_time]
                     /\ last_refresh_time' = last_refresh_time]_vars

C11_Witness ==
    /\ JustDispatched({"WR"})
    /\ ret[1]
    /\ banks[KeyOf(cmd)].last_write_time = current_time
    /\ \E e \in 1 .. Len(errors) :
         errors[e].command = "WR" /\ errors[e].error[1] = "tRCD violation"

\* A step that dispatches a command of one of the kinds which is identical
\* (kind, target, fields and timestamp) to the command dispatched right
\* before it, which succeeded.
RepeatsSuccess(kinds) == Dispatched(kinds) /\ cmd' = cmd /\ ret[1]

\* C12: for activate, read, write, precharge and refresh, the same command
\* issued again right after it succeeded, at the same time, fails.
C12_Idempotence ==
    [][RepeatsSuccess({"ACT", "RD", "WR", "PRE", "REF"}) => ~ret'[1]]_vars

\* C12 as amended: a repeated activate fails with 'already active', a
\* repeated precharge with 'already idle' and a repeated refresh with a tREFI
\* reason; a repeated read or write succeeds again.
C12_Repeat ==
    [][RepeatsSuccess({"ACT", "RD", "WR", "PRE", "REF"}) =>
          CASE cmd'.command = "ACT" -> ~ret'[1] /\ ret'[2] = <<"Bank already active">>
            [] cmd'.command = "PRE" -> ~ret'[1] /\ ret'[2] = <<"Bank already idle">>
            [] cmd'.command = "REF" -> ~ret'[1] /\ ret'[2][1] = "tREFI violation"
            [] OTHER -> ret'[1]]_vars

\* A write was issued twice at the same time and succeeded both times.
C12_Witness ==
    /\ JustDispatched({"WR"})
    /\ hist.repeated
    /\ ret[1]
    /\ errors = <<>>
    /\ banks[KeyOf(cmd)].last_write_time = current_time

\* The commands of list s that carry timestamp t, in the order of s.
AtTimestamp(s, t) == SelectSeq(s, LAMBDA c : c.timestamp = t)

NonDecreasing(s) ==
    \A a, b \in 1 .. Len(s) : a <= b => s[a].timestamp <= s[b].timestamp

\* C13: whatever the order of the workload, the driver executes its commands
\* in non-decreasing timestamp order: the list it walks holds the
\* workload's commands, timestamps non-decreasing and equal timestamps in
\* input order, and each step takes the next command of that list.  Sorting
\* the pre-sorted workload gives the same list again, so the run on the
\* pre-sorted workload walks the same list and ends with the same result,
\* banks and errors.
C13_Ordering ==
    [][LET w == Get(workload)
           s == sorted(w)
       IN  /\ NonDecreasing(s)
           /\ Len(s) = Len(w)
           /\ \A t \in 0 .. MaxTime : AtTimestamp(s, t) = AtTimestamp(w, t)
           /\ sorted(s) = s
           /\ (pc \in {"fetch", "dispatch"} /\ pc' \in {"fetch", "done"}) =>
                /\ cmd' = s[i + 1]
                /\ cmd'.timestamp >= cmd.timestamp
                /\ current_time' = current_time]_vars

\* A run of a workload given out of timestamp order, all commands executed.
C13_Witness ==
    /\ pc = "done" /\ calls = 1
    /\ Len(Get(workload)) = MaxCmds
    /\ Get(workload)[1].timestamp > Get(workload)[MaxCmds].timestamp
    /\ cmd = Get(workload)[1] /\ cmd.command = "PRE"
    /\ errors = <<>>
    /\ result.activation_energy > 0

\* The step of the loop that meets END_OF_SIMULATION (cmd' is the marker).
EndStep == pc = "fetch" /\ pc' = "done"

\* The EndStep flushes the background energy since last_time_ns and runs no
\* command: the ten counters are those of the flush, the machine and the
\* error list stay as they are and the call is over.
EndStepFlushesAndStops ==
    LET flushed == accumulate_background_power(result, banks, last_time_ns,
                                               cmd'.timestamp * spec.timing.tck)
    IN  /\ \A f \in Counters : result'[f] = flushed[f]
        /\ MachineUnchanged /\ calc' = calc /\ errors' = errors

\* C14: at END_OF_SIMULATION the background energy since last_time_ns is
\* flushed, no later command of the sorted trace is executed, and the
\* finalized duration is the marker's timestamp times the clock period.
C14_EndOfSimulation ==
    [][EndStep =>
          /\ EndStepFlushesAndStops
          /\ result'.simulation_time = cmd'.timestamp * spec.timing.tck]_vars

\* C14 as amended: the finalized duration is the marker's time when that is
\* greater than 0, and otherwise the time of the last command of the sorted
\* trace.
C14_EndMarker ==
    [][EndStep =>
          /\ EndStepFlushesAndStops
          /\ result'.simulation_time =
                IF cmd'.timestamp * spec.timing.tck > 0
                THEN cmd'.timestamp * spec.timing.tck
                ELSE sorted_commands[Len(sorted_commands)].timestamp * spec.timing.tck]_vars

\* The marker ended a run with a command still to come and a gap flushed.
C14_Witness ==
    /\ pc = "done" /\ calls = 1
    /\ cmd.command = "END_OF_SIMULATION"
    /\ i + 1 < Len(sorted_commands)
    /\ i > 0
    /\ result.simulation_time = cmd.timestamp * spec.timing.tck
    /\ result.background_active_energy > 0
    /\ errors = <<>>

\* C15: every simulate call with an empty workload, whatever the Simulator
\* ran before, ends with exactly the one 'no commands' error and a result
\* whose ten counters, totals, duration and average power are all zero.
C15_EmptyTrace ==
    (pc = "done" /\ workload = Some(<<>>)) =>
        /\ errors = <<"No commands in workload">>
        /\ result = PowerResult

\* C16: errors never abort the run.  Every command before the end marker is
\* attempted, in the order of the sorted trace; a failing command appends
\* exactly one error string, naming the command and its timestamp, and a
\* succeeding one none; failed or not, the run goes on to the next command
\* whenever there is one.
C16_ErrorsNeverAbort ==
    [][LET s == sorted_commands IN
       /\ (pc = "fetch" /\ s[i + 1].command # "END_OF_SIMULATION")
             => pc' = "dispatch"
       /\ pc = "dispatch" =>
             /\ cmd' = s[i + 1]
             /\ ret'[1] => errors' = errors
             /\ ~ret'[1] =>
                  /\ ~IsNone(ret'[2])
                  /\ errors' = Append(errors, [command |-> cmd'.command,
                                               timestamp |-> cmd'.timestamp,
                                               error |-> ret'[2]])
             /\ IF i + 1 < Len(s)
                THEN pc' = "fetch" /\ i' = i + 1 /\ ts' = Some(s[i + 2].timestamp)
                ELSE pc' = "done"]_vars

\* Two commands failed and the one after them was still executed.
C16_Witness ==
    /\ pc = "done" /\ calls = 1
    /\ i = 2
    /\ Len(errors) = 2
    /\ errors[1].timestamp = 0 /\ errors[2].timestamp > 0
    /\ ret[1]
    /\ cmd.command = "ACT" /\ banks[KeyOf(cmd)].state = "ACTIVE"

\* The banks of rank r whose precharge is illegal at the current time.
FailingBanks(r) ==
    {b \in 0 .. spec.architecture.nbr_of_banks - 1 :
        ~can_precharge(banks[<<r, b>>], current_time)[1]}

\* C17: precharge-all precharges every bank of the rank that can be
\* precharged, also after an illegal one, and when some bank fails the command
\* is reported as failed with the reason of the failing bank of lowest index.
C17_PrechargeAllFirstFailure ==
    [][Dispatched({"PREA"}) =>
          LET r == KeyOf(cmd')[1]
              first == CHOOSE b \in FailingBanks(r) : \A o \in FailingBanks(r) : b <= o
          IN  /\ \A b \in 0 .. spec.architecture.nbr_of_banks - 1 :
                   b \notin FailingBanks(r) =>
                       /\ banks'[<<r, b>>].state = "IDLE"
                       /\ banks'[<<r, b>>].last_precharge_time = current_time
              /\ FailingBanks(r) # {} =>
                   /\ ~ret'[1]
                   /\ ret'[2] = can_precharge(banks[<<r, first>>], current_time)[2]]_vars

\* An activate without a row or a per-bank refresh without a bank.
MissingField(c) ==
    \/ c.command = "ACT" /\ IsNone(c.row)
    \/ c.command = "REFPB" /\ IsNone(c.bank)

\* C18: an activate without a row and a per-bank refresh without a bank are
\* each recorded as one error and skipped: no bank changes, the last-refresh
\* time and the refresh count stay, no counter changes, and the loop goes on
\* to the next command.
C18_MissingField ==
    [][(Dispatched({"ACT", "REFPB"}) /\ MissingField(cmd')) =>
          /\ ~ret'[1]
          /\ ret'[2] = IF cmd'.command = "ACT" THEN <<"ACT command requires row">>
                       ELSE <<"REFPB command requires bank">>
          /\ errors' = Append(errors, [command |-> cmd'.command,
                                       timestamp |-> cmd'.timestamp,
                                       error |-> ret'[2]])
          /\ MachineUnchanged /\ CountersUnchanged /\ calc' = calc
          /\ hist'.refresh = hist.refresh
          /\ pc' = "fetch" => i' = i + 1]_vars

\* Both kinds of command were skipped with an error, and a complete activate
\* after them was executed.
C18_Witness ==
    /\ JustDispatched({"ACT"})
    /\ ret[1]
    /\ banks[KeyOf(cmd)].state = "ACTIVE"
    /\ Len(errors) = 2
    /\ errors[1].error = <<"ACT command requires row">>
    /\ errors[2].error = <<"REFPB command requires bank">>
    /\ calc.refresh_count = 0 /\ last_refresh_time = NoRefreshYet

\* A simulate call on a non-empty trace has returned.
Completed == pc = "done" /\ cmd # NoCommand

\* C19: after any completed run of a non-empty trace, core energy is the sum
\* of the eight core counters, interface energy the sum of termination and
\* dynamic-I/O energy, and total energy their sum, hence the sum of all ten
\* counters.
C19_EnergyTotals ==
    Completed =>
        /\ result.core_energy =
              result.activation_energy + result.read_energy + result.write_energy
              + result.precharge_energy + result.refresh_energy
              + result.background_active_energy + result.background_precharge_energy
              + result.powerdown_energy
        /\ result.interface_energy =
              result.termination_energy + result.dynamic_io_energy
        /\ result.total_energy = result.core_energy + result.interface_energy
        /\ result.total_energy =
              result.activation_energy + result.read_energy + result.write_energy
              + result.precharge_energy + result.refresh_energy
              + result.background_active_energy + result.background_precharge_energy
              + result.powerdown_energy + result.termination_energy
              + result.dynamic_io_energy

C19_Witness ==
    /\ Completed
    /\ result.activation_energy > 0 /\ result.read_energy > 0
    /\ result.precharge_energy > 0
    /\ result.background_active_energy > 0 /\ result.termination_energy > 0
    /\ result.total_energy > result.core_energy

\* C20: after finalize, average power (mW) is total energy (nJ) over the
\* duration (ns) times 1000 when the duration is greater than 0, and 0 when
\* the duration is 0.
C20_AveragePower ==
    Completed =>
        IF result.simulation_time > 0
        THEN result.average_power[1] * result.simulation_time
               = result.total_energy * 1000 * result.average_power[2]
        ELSE result.average_power[1] = 0

\* Every command of the run was at timestamp 0: energy was charged, the
\* duration is 0 and so is the average power.
C20_Witness ==
    /\ Completed
    /\ i = 1
    /\ result.simulation_time = 0
    /\ result.total_energy > 0
    /\ result.activation_energy > 0 /\ result.refresh_energy > 0
    /\ result.average_power[1] = 0

\* 0.5 x C_DQ x V_IO^2 x burst-length x data-width x switching-activity, in
\* energy units.
DynamicIO(burst) ==
    (UnitsPerPJ * DqCapacitance * spec.power.vddq * spec.power.vddq * burst
       * spec.architecture.width * SwitchingPercent) \div 200

\* In a dispatch step, the duration a read or write is charged for: up to the
\* next command of the sorted trace, or one clock period after the last one.
ChargedDuration ==
    LET next_ns == IF pc' = "fetch" THEN Get(ts') * spec.timing.tck
                   ELSE current_time + spec.timing.tck
    IN  IF next_ns # 0 THEN next_ns - current_time ELSE spec.timing.tck

\* C21: every successful read or write that carries a burst length adds the
\* dynamic I/O energy of the burst to the dynamic-I/O counter, which grows,
\* and adds only the core energy of the transfer to the read or write counter.
C21_DynamicIO ==
    [][(Dispatched({"RD", "WR"}) /\ ret'[1] /\ ~IsNone(cmd'.burst_length)) =>
          /\ result'.dynamic_io_energy
                = result.dynamic_io_energy + DynamicIO(Get(cmd'.burst_length))
          /\ result'.dynamic_io_energy > result.dynamic_io_energy
          /\ cmd'.command = "RD" =>
                result'.read_energy = result.read_energy
                  + (spec.power.idd4r - spec.power.idd3n) * spec.power.vdd
                      * ChargedDuration * UnitsPerPJ
          /\ cmd'.command = "WR" =>
                result'.write_energy = result.write_energy
                  + (spec.power.idd4w - spec.power.idd3n) * spec.power.vdd
                      * ChargedDuration * UnitsPerPJ]_vars

\* I_DD5B x V_DD x tRFC, in energy units.
RefreshCharge == spec.power.idd5b * spec.power.vdd * spec.timing.trfc * UnitsPerPJ

\* C22: a successful all-bank refresh adds exactly I_DD5B x V_DD x tRFC to the
\* refresh counter whatever the gap to the next command, a failed one adds
\* nothing, no step other than a successful refresh changes the counter, and
\* (no per-bank refresh-cycle value being configured) the counter is the
\* number of successful refreshes times that charge.
C22_RefreshEnergy ==
    [][/\ Dispatched({"REF"}) =>
             result'.refresh_energy
               = result.refresh_energy + (IF ret'[1] THEN RefreshCharge ELSE 0)
       /\ ~(Dispatched({"REF", "REFPB"}) /\ ret'[1]) =>
             result'.refresh_energy = result.refresh_energy
       /\ IsNone(spec.timing.trfcpb) =>
             result'.refresh_energy = calc'.refresh_count * RefreshCharge]_vars

\* A second successful refresh, issued after a first one that was followed by
\* a gap, while another command is still to come.
C22_Witness ==
    /\ JustDispatched({"REF"}) /\ ret[1] /\ pc = "fetch"
    /\ calc.refresh_count = 2
    /\ result.refresh_energy = 2 * RefreshCharge

\* The command carries a rank or bank index outside the configured
\* ranks x banks.
OutOfRange(c) ==
    \/ ~IsNone(c.rank) /\ Get(c.rank) \notin 0 .. spec.architecture.nbr_of_ranks - 1
    \/ ~IsNone(c.bank) /\ Get(c.bank) \notin 0 .. spec.architecture.nbr_of_banks - 1

\* C30: a command whose rank or bank index is outside the configured ranks x
\* banks aborts the run with a fault: no error string is recorded for it, no
\* bank and no counter is touched, and finalize is not reached.
C30_ContractViolation ==
    [][(pc = "dispatch" /\ pc' # "dispatch" /\ OutOfRange(cmd')) =>
          /\ pc' = "fault"
          /\ errors' = errors
          /\ MachineUnchanged
          /\ result' = result]_vars

\* A step of the loop head: the idle interval since the last command is
\* flushed when it is not empty.
LoopHead == pc = "fetch" /\ pc' \in {"dispatch", "done"}

\* C23: a flushed interval of length d adds to the background energies
\* I_DD3N, I_DD3P, I_DD2N and I_DD2P x V_DD x d weighted by the number of
\* banks in Active, Active-power-down, Idle and Precharge-power-down over the
\* bank count N; the four bank counts add up to N, so the shares sum to d;
\* with zero banks the whole of d is charged as precharge standby.  One pJ
\* is 24 x N energy units.
C23_BackgroundSplit ==
    [][LoopHead =>
          LET d == Get(ts) * spec.timing.tck - last_time_ns
              nA == CountIn(banks, "ACTIVE")
              nAP == CountIn(banks, "ACTIVE_PDN")
              nI == CountIn(banks, "IDLE")
              nIP == CountIn(banks, "PRE_PDN")
              V == spec.power.vdd
          IN  IF d <= 0
              THEN /\ result'.background_active_energy = result.background_active_energy
                   /\ result'.background_precharge_energy
                        = result.background_precharge_energy
              ELSE IF NTotal = 0
              THEN /\ result'.background_active_energy = result.background_active_energy
                   /\ result'.background_precharge_energy
                        = result.background_precharge_energy
                          + 24 * spec.power.idd2n * V * d
              ELSE /\ nA + nAP + nI + nIP = NTotal
                   /\ result'.background_active_energy
                        = result.background_active_energy
                          + 24 * V * d * (spec.power.idd3n * nA + spec.power.idd3p * nAP)
                   /\ result'.background_precharge_energy
                        = result.background_precharge_energy
                          + 24 * V * d * (spec.power.idd2n * nI + spec.power.idd2p * nIP)
      ]_vars

\* An interval has just been flushed with one bank Active and one Idle:
\* half of it was charged to each.
C23_Witness ==
    /\ pc = "dispatch" /\ last_time_ns < current_time
    /\ CountIn(banks, "ACTIVE") = 1 /\ CountIn(banks, "IDLE") = 1
    /\ result.background_active_energy
         = 24 * spec.power.vdd * spec.power.idd3n * (current_time - last_time_ns)
    /\ result.background_precharge_energy
         = 24 * spec.power.vdd * spec.power.idd2n * (current_time - last_time_ns)

\* Times (ns) handed to calculate_background_power.
BackgroundTimes == 0 .. MaxTime * TimingFixture.tck

\* C24: calculate_background_power called with an active time and a
\* precharge time returns the pair (I_DD3N x V_DD x active time,
\* I_DD2N x V_DD x precharge time).
C24_BackgroundPair ==
    \A a \in BackgroundTimes, p \in BackgroundTimes :
        calculate_background_power_call(<<a, p>>)
          = << spec.power.idd3n * spec.power.vdd * a * UnitsPerPJ,
               spec.power.idd2n * spec.power.vdd * p * UnitsPerPJ >>

\* C25: every call of simulate on a workload with commands starts its loop
\* from an empty EnergyResult and all-Idle banks with no refresh on record,
\* whatever was run before on the same Simulator.
C25_FreshRun ==
    [][(pc = "init" /\ pc' = "fetch") =>
          /\ result' = PowerResult
          /\ banks' = [k \in DOMAIN banks |-> BankStateInfo]
          /\ last_refresh_time' = NoRefreshYet]_vars

\* Finalizing the result once more, with the duration it holds, changes
\* nothing: no counter was written after finalize summed them.
StillFinalized == result = finalize(result, result.simulation_time)

C28_PassThrough ==
    [][Dispatched({"PDN", "SR"}) =>
          /\ ret' = <<TRUE, None>>
          /\ errors' = errors
          /\ MachineUnchanged
          /\ CountersUnchanged
          /\ calc' = calc]_vars

\* A power-down entry has been dispatched while a bank was Active and
\* energy had been charged; the bank is still Active with its row open.
C28_Witness ==
    /\ JustDispatched({"PDN"})
    /\ \E k \in DOMAIN banks : banks[k].state = "ACTIVE" /\ ~IsNone(banks[k].open_row)
    /\ result.activation_energy > 0

\* C29: a per-bank refresh that names a bank acts on the machine as a full
\* refresh does.  It fails with a tREFI reason, changing nothing, when the
\* last successful refresh of either kind is less than tREFI ago; otherwise
\* it succeeds, leaves every Active bank of every rank Idle with no open
\* row, whichever bank it names, leaves the Idle banks as they were and
\* sets the global last-refresh time.  It is charged I_DD5B x V_DD over the
\* per-bank refresh-cycle time when one is configured, over tRFC otherwise.
C29_PerBankRefresh ==
    [][(Dispatched({"REFPB"}) /\ ~IsNone(cmd'.bank)) =>
          LET due == IF IsNone(hist.refresh) THEN TRUE
                     ELSE current_time - Get(hist.refresh) >= spec.timing.trfi
              cycle == IF IsNone(spec.timing.trfcpb) THEN spec.timing.trfc
                       ELSE Get(spec.timing.trfcpb)
          IN  IF due
              THEN /\ ret' = <<TRUE, None>>
                   /\ \A k \in DOMAIN banks :
                        /\ banks[k].state = "ACTIVE" =>
                             banks'[k] = [banks[k] EXCEPT !.state = "IDLE",
                                                          !.open_row = None]
                        /\ banks[k].state = "IDLE" => banks'[k] = banks[k]
                   /\ last_refresh_time' = current_time
                   /\ result'.refresh_energy
                        = result.refresh_energy
                          + spec.power.idd5b * spec.power.vdd * cycle * UnitsPerPJ
              ELSE /\ ~ret'[1] /\ ret'[2][1] = "tREFI violation"
                   /\ MachineUnchanged
                   /\ CountersUnchanged]_vars

\* With a per-bank refresh-cycle time configured, a per-bank refresh naming
\* bank 0 of rank 0 has closed the Active bank of rank 1 as well and was
\* charged over the per-bank cycle time.
C29_Witness ==
    /\ JustDispatched({"REFPB"}) /\ ret[1] /\ KeyOf(cmd) = <<0, 0>>
    /\ ~IsNone(spec.timing.trfcpb)
    /\ <<1, 0>> \in DOMAIN banks
    /\ \A k \in DOMAIN banks :
         ~IsNone(hist.activate[k]) /\ banks[k].state = "IDLE" /\ IsNone(banks[k].open_row)
    /\ last_refresh_time = current_time
    /\ result.refresh_energy
         = spec.power.idd5b * spec.power.vdd * Get(spec.timing.trfcpb) * UnitsPerPJ

\* What a run hands back and leaves behind: the EnergyResult, the bank
\* states, the last refresh time and the error list.
Outputs(m) ==
    [result |-> m.result, banks |-> m.banks,
     last_refresh_time |-> m.last_refresh_time, errors |-> m.errors]

\* C26: two Simulators built from the same spec and run on different traces
\* with their steps interleaved in any way each end with the EnergyResult,
\* bank states and error list of the run made alone on a newly built
\* Simulator, and the spec they share is never written.
C26_Isolation ==
    /\ spec \in Specs
    /\ pc = "done" => Outputs(Running) = Outputs(simulate(Built(Get(workload))))
    /\ Get(other).pc = "done" =>
          Outputs(Get(other)) = Outputs(simulate(Built(Get(Get(other).workload))))

\* One run has ended, with an error and an activation of its own, while the
\* other, which has been charged for its first command, is in the middle of
\* its second command.
C26_Witness ==
    /\ pc = "done" /\ Len(Get(workload)) = MaxCmds
    /\ Len(errors) = 1 /\ result.activation_energy > 0
    /\ Get(other).pc = "dispatch" /\ Get(other).i = 1
    /\ Get(other).result.activation_energy > 0
    /\ Get(other).banks # banks

\* C32: for a command other than the end marker, at time t, the gap since
\* last_time_ns is flushed with the banks as they are before the command
\* executes (the share of active standby is the number of banks Active
\* then), the clock is set to t and no bank changes; the command is
\* dispatched afterwards, at clock t, and its dispatch flushes nothing.
C32_FlushBeforeDispatch ==
    [][/\ (pc = "fetch" /\ pc' = "dispatch") =>
            LET t == Get(ts) * spec.timing.tck
                d == IF t > last_time_ns THEN t - last_time_ns ELSE 0
            IN  /\ MachineUnchanged
                /\ current_time' = t
                /\ result'.background_active_energy
                     = result.background_active_energy
                       + 24 * spec.power.vdd * d * spec.power.idd3n
                            * CountIn(banks, "ACTIVE")
                /\ result'.background_precharge_energy
                     = result.background_precharge_energy
                       + 24 * spec.power.vdd * d * spec.power.idd2n
                            * CountIn(banks, "IDLE")
       /\ pc = "dispatch" =>
            /\ pc' # "dispatch" /\ current_time' = current_time
            /\ current_time = cmd'.timestamp * spec.timing.tck
            /\ result'.background_active_energy = result.background_active_energy
            /\ result'.background_precharge_energy
                 = result.background_precharge_energy]_vars

\* [ACT bank 0 @0, PRE bank 0 @MaxTime] on a new Simulator: the precharge
\* has closed the bank, and the whole interval before it was weighted with
\* bank 0 Active and bank 1 Idle.
C32_Witness ==
    /\ JustDispatched({"PRE"}) /\ ret[1] /\ calls = 1 /\ i = 1
    /\ banks[<<0, 0>>].state = "IDLE"
    /\ result.background_active_energy
         = 24 * spec.power.vdd * spec.power.idd3n * MaxTime * spec.timing.tck
    /\ result.background_precharge_energy
         = 24 * spec.power.vdd * spec.power.idd2n * MaxTime * spec.timing.tck

\* The counters a successful command of a kind may change.
MatchingCounters(kind) ==
    CASE kind = "ACT" -> {"activation_energy"}
      [] kind \in {"PRE", "PREA"} -> {"precharge_energy"}
      [] kind \in {"REF", "REFPB"} -> {"refresh_energy"}
      [] kind = "RD" -> {"read_energy", "dynamic_io_energy", "termination_energy"}
      [] kind = "WR" -> {"write_energy", "dynamic_io_energy", "termination_energy"}
      [] OTHER -> {}

\* C34: a successful command changes no counter but its matching ones; no
\* step of a run decreases a counter; the termination counter changes only
\* in the dispatch of a successful read or write and the background
\* counters only in the flush at the loop head.
C34_CounterFrame ==
    [][/\ \A f \in Counters : result'[f] >= result[f]
       /\ (pc = "dispatch" /\ ret'[1]) =>
             \A f \in Counters \ MatchingCounters(cmd'.command) :
                 result'[f] = result[f]
       /\ result'.termination_energy # result.termination_energy =>
             Dispatched({"RD", "WR"}) /\ ret'[1]
       /\ (\/ result'.background_active_energy # result.background_active_energy
           \/ result'.background_precharge_energy # result.background_precharge_energy)
             => LoopHead]_vars

\* A write has been charged after an activate and a flushed gap: three
\* kinds of counters hold energy, the others none.
C34_Witness ==
    /\ JustDispatched({"WR"}) /\ ret[1] /\ calls = 1
    /\ result.activation_energy > 0 /\ result.write_energy > 0
    /\ result.termination_energy > 0 /\ result.background_active_energy > 0
    /\ result.read_energy = 0 /\ result.precharge_energy = 0
    /\ result.refresh_energy = 0

\* C35: activate, read, write and precharge on (rank, bank), successful or
\* not, leave every field of every other bank and the global last-refresh
\* time as they were; precharge-all for a rank leaves the banks of every
\* other rank and the last-refresh time as they were.
C35_BankFrame ==
    [][/\ Dispatched({"ACT", "RD", "WR", "PRE"}) =>
            /\ \A k \in DOMAIN banks : k # KeyOf(cmd') => banks'[k] = banks[k]
            /\ last_refresh_time' = last_refresh_time
       /\ Dispatched({"PREA"}) =>
            /\ \A k \in DOMAIN banks :
                  k[1] # KeyOf(cmd')[1] => banks'[k] = banks[k]
            /\ last_refresh_time' = last_refresh_time]_vars

\* Both ranks' banks were opened; a precharge-all for rank 0 has closed the
\* bank of rank 0 and the bank of rank 1 is still Active with its row.
C35_Witness ==
    /\ JustDispatched({"PREA"}) /\ ret[1] /\ KeyOf(cmd)[1] = 0
    /\ <<1, 0>> \in DOMAIN banks
    /\ banks[<<0, 0>>].state = "IDLE" /\ ~IsNone(hist.activate[<<0, 0>>])
    /\ banks[<<1, 0>>].state = "ACTIVE" /\ ~IsNone(banks[<<1, 0>>].open_row)

\* C37: whatever commands the driver has run, power-down entry and
\* self-refresh entry included, every bank is Idle or Active wherever a gap
\* is flushed or a command dispatched, so no share of an interval falls to
\* a power-down state, and the power-down counter is zero.
C37_ReachableBankStates ==
    /\ \A k \in DOMAIN banks : banks[k].state \in {"IDLE", "ACTIVE"}
    /\ CountIn(banks, "ACTIVE_PDN") = 0 /\ CountIn(banks, "PRE_PDN") = 0
    /\ result.powerdown_energy = 0

\* After a refresh, an activate and a gap flushed with the bank Active, a
\* self-refresh entry has been dispatched: the bank is Active still.
C37_Witness ==
    /\ JustDispatched({"SR"}) /\ ~IsNone(hist.refresh)
    /\ \E k \in DOMAIN banks : banks[k].state = "ACTIVE"
    /\ result.background_active_energy > 0

\* (I_DD0 - I_DD3N) x V_DD x tRP, in energy units.
PrechargeCharge ==
    (spec.power.idd0 - spec.power.idd3n) * spec.power.vdd * spec.timing.trp * UnitsPerPJ

\* C38: a precharge-all that the machine can look up is reported
\* successful exactly when every bank of its rank passes the precharge
\* check in the state before it, hence failed whenever a bank of the rank
\* is Idle; a successful one is charged one precharge energy however many
\* banks it closed, a failed one nothing.
C38_PrechargeAll ==
    [][(Dispatched({"PREA"}) /\ pc' # "fault") =>
          LET rank == KeyOf(cmd')[1]
              mine == {k \in DOMAIN banks : k[1] = rank}
              passes == \A k \in mine : can_precharge(banks[k], current_time)[1]
          IN  /\ ret'[1] = passes
              /\ (\E k \in mine : banks[k].state = "IDLE") => ~ret'[1]
              /\ result'.precharge_energy
                   = result.precharge_energy + (IF passes THEN PrechargeCharge ELSE 0)
      ]_vars

\* A precharge-all has closed two banks of the rank at once and one
\* precharge energy was charged.
C38_Witness ==
    /\ JustDispatched({"PREA"}) /\ ret[1]
    /\ Cardinality(DOMAIN banks) = 2
    /\ \A k \in DOMAIN banks :
         k[1] = 0 /\ banks[k].state = "IDLE" /\ banks[k].last_precharge_time = current_time
         /\ current_time > 0
    /\ result.precharge_energy = PrechargeCharge

\* C40: a successful read or write at time t is charged core and
\* termination energy over the time from t to the next command of the
\* sorted trace, whatever that command is, and over one clock period when
\* it is the last command; when the next command carries the same
\* timestamp the duration is zero.  The burst's I/O energy, which does not
\* depend on the duration, goes into the same read or write counter.
C40_ChargedDuration ==
    [][(Dispatched({"RD", "WR"}) /\ ret'[1]) =>
          LET s == sorted_commands
              k == i + 1
              d == IF k < Len(s)
                   THEN (s[k + 1].timestamp - s[k].timestamp) * spec.timing.tck
                   ELSE spec.timing.tck
              burst == IF IsNone(s[k].burst_length) THEN spec.architecture.burst_length
                       ELSE Get(s[k].burst_length)
              idd == IF s[k].command = "RD" THEN spec.power.idd4r ELSE spec.power.idd4w
              counter == IF s[k].command = "RD" THEN "read_energy" ELSE "write_energy"
          IN  /\ cmd' = s[k]
              /\ d >= 0
              /\ result'[counter]
                   = result[counter]
                     + (idd - spec.power.idd3n) * spec.power.vdd * d * UnitsPerPJ
                     + DynamicIO(burst)
              /\ result'.termination_energy
                   = result.termination_energy
                     + (spec.power.vddq * spec.power.vddq * d * 125 * UnitsPerPJ)
                         \div OdtResistance]_vars

\* The banks that are Active before a step and no longer Active after it.
Closed == {k \in DOMAIN banks : banks[k].state = "ACTIVE" /\ banks'[k].state # "ACTIVE"}

\* C36 as stated: a bank that became Active at time t stays Active until at
\* least t + tRAS, whatever commands follow, refresh and precharge-all
\* included.
C36_MinimumRowOpenTime ==
    [][\A k \in Closed :
          current_time - banks[k].last_activate_time >= spec.timing.tras]_vars

\* C36, amended: a bank that became Active at time t is closed by a
\* precharge or precharge-all no earlier than t + tRAS (a precharge-all
\* closes the banks of its rank that pass the check even when it reports
\* the failure of another bank), and by nothing else but a successful
\* refresh, which closes it whatever the time since t.
C36_RowOpenUntilPrechargeOrRefresh ==
    [][\A k \in Closed :
          /\ pc = "dispatch"
          /\ banks'[k].state = "IDLE" /\ banks'[k].open_row = None
          /\ \/ /\ cmd'.command = "PRE" /\ ret'[1] /\ KeyOf(cmd') = k
                /\ current_time - banks[k].last_activate_time >= spec.timing.tras
             \/ /\ cmd'.command = "PREA" /\ KeyOf(cmd')[1] = k[1]
                /\ current_time - banks[k].last_activate_time >= spec.timing.tras
             \/ cmd'.command \in {"REF", "REFPB"} /\ ret'[1]]_vars

\* A precharge-all that reports a failure has closed a bank exactly tRAS
\* after its activation while a bank activated later stays Active.
C36_Witness ==
    /\ JustDispatched({"PREA"}) /\ ~ret[1]
    /\ \E k, l \in DOMAIN banks :
         /\ banks[k].state = "IDLE" /\ hist.activate[k] # None
         /\ banks[k].last_precharge_time = current_time
         /\ current_time - banks[k].last_activate_time = spec.timing.tras
         /\ banks[l].state = "ACTIVE"
         /\ current_time - banks[l].last_activate_time < spec.timing.tras

\* The times on record in the state machine: each bank's last activate, read,
\* write and precharge time and the global last refresh time.
RecordedTimes(bks, lrt) ==
    {lrt} \cup UNION {{bks[k].last_activate_time, bks[k].last_read_time,
                       bks[k].last_write_time, bks[k].last_precharge_time} :
                      k \in DOMAIN bks}

\* C39: the state machine's current time never decreases, every time on
\* record in the state machine is at most the current time, and the n-th
\* command executed at a timestamp is the n-th command of the input trace
\* with that timestamp.
C39_ClockAndOrder ==
    [][/\ current_time' >= current_time
       /\ \A u \in RecordedTimes(banks', last_refresh_time') : u <= current_time'
       /\ (~IsNone(workload) /\ pc \in {"fetch", "dispatch"} /\ pc' \in {"fetch", "done"}) =>
            LET s == sorted_commands
                t == s[i + 1].timestamp
                n == Len(AtTimestamp(SubSeq(s, 1, i + 1), t))
            IN  cmd' = AtTimestamp(Get(workload), t)[n]]_vars

\* A step that charges background energy for an interval.
Flush == hist'.flushed[2] > hist.flushed[2]

\* The step that finalizes the result of a run.
Finalizing == pc \in {"fetch", "dispatch"} /\ pc' = "done"

\* Every interval charged with background energy starts where the one
\* before it ended, the first one at 0, and ends at the time of the command
\* at the loop head, whether the commands in between succeeded or failed:
\* the intervals are disjoint and cover the time from 0 to the end of the
\* last one, which the sum of their lengths equals.
ContiguousFlushes ==
    /\ Flush => /\ pc = "fetch"
                /\ last_time_ns = hist.flushed[1]
                /\ hist'.flushed[1] = Get(ts) * spec.timing.tck
                /\ hist'.flushed[1] > hist.flushed[1]
    /\ hist'.flushed[2] = hist'.flushed[1]

\* C33 as stated: the intervals charged with background energy are disjoint
\* and contiguous from 0, and the sum of their lengths is the finalized
\* simulation duration.
C33_BackgroundCoverage ==
    [][/\ ContiguousFlushes
       /\ Finalizing => result'.simulation_time = hist'.flushed[2]]_vars

\* C33, amended: the intervals are disjoint and contiguous from 0 to the
\* time of the last command processed or of the end marker, and the sum of
\* their lengths is the finalized duration whenever that time is greater
\* than 0; when it is 0 nothing was flushed and the finalized duration is
\* the time of the last command of the sorted trace.
C33_CoverageToLastProcessed ==
    [][/\ ContiguousFlushes
       /\ Finalizing =>
            /\ hist'.flushed[2] = last_time_ns'
            /\ IF last_time_ns' > 0
               THEN result'.simulation_time = hist'.flushed[2]
               ELSE /\ hist'.flushed[2] = 0
                    /\ result'.simulation_time >= 0
                    /\ ~IsNone(workload) =>
                         result'.simulation_time
                           = sorted_commands[Len(sorted_commands)].timestamp
                               * spec.timing.tck]_vars

\* A run of three commands at three times, one of which failed, is over:
\* the flushed intervals add up to the finalized duration.
C33_Witness ==
    /\ pc = "done" /\ i = 2 /\ errors # <<>>
    /\ cmd.timestamp = MaxTime
    /\ hist.flushed = <<MaxTime * spec.timing.tck, MaxTime * spec.timing.tck>>
    /\ result.simulation_time = hist.flushed[2]
    /\ result.background_active_energy > 0
    /\ result.background_precharge_energy > 0

\* C31: scenario A runs with zero errors, ends with bank 0 Idle, and yields
\* an activation energy, a read energy, a total energy, an average power and
\* a simulation time greater than 0.
C31_ScenarioA ==
    pc = "done" =>
        /\ errors = <<>>
        /\ banks[<<0, 0>>].state = "IDLE"
        /\ result.activation_energy > 0
        /\ result.read_energy > 0
        /\ result.total_energy > 0
        /\ result.average_power[1] > 0 /\ result.average_power[2] > 0
        /\ result.simulation_time > 0

\* The run of the trace in the order of the test is over: the read was
\* charged over the ten units to the precharge and the run lasted 100 units.
C31_Witness ==
    /\ pc = "done" /\ workload = Some(ScenarioA)
    /\ cmd.command = "END_OF_SIMULATION" /\ i = 3
    /\ result.simulation_time = 100
    /\ result.read_energy
         = (spec.power.idd4r - spec.power.idd3n) * spec.power.vdd * 10 * UnitsPerPJ
           + DynamicIO(16)
    /\ result.precharge_energy > 0

====
